---- MODULE Spec2Model ----
(***************************************************************************)
(* Chip-grid planning, bin assignment, per-task partial manifests, the     *)
(* manifest merge and the conversion, extraction and annotation-merge      *)
(* scripts of the buffelgrass annotator.                                   *)
(*                                                                         *)
(*   SpecGrid      compute_chip_grid (both copies) applied to bounded      *)
(*                 inputs and to the default 1024 / 6x5 / 10 configuration *)
(*   SpecManifest  the Cloud Run manifest job (one action per task run)    *)
(*                 and merge_chip_manifest.py over a shared bucket         *)
(*   SpecMerge     merge_chip_manifest.py alone, over every set of         *)
(*                 partial manifests the job can leave behind              *)
(*   SpecJob       the manifest job alone, over a source bucket whose      *)
(*                 images come and go between executions                   *)
(*   SpecRetry     the manifest job alone, with tasks started again        *)
(*   SpecRead      read_manifest over merged manifests                     *)
(*   SpecCoords    chip_extractor.py: generate_random_chip_coords and      *)
(*                 ChipCoords.is_valid on bounded inputs                   *)
(*   SpecCells     chip_extraction_job.py:                                 *)
(*                 generate_non_overlapping_grid_coords on bounded inputs  *)
(*   SpecConvert   the tasks of the Cloud Run COG conversion job           *)
(*   SpecBatch     batch_extract_chips.py run again and again              *)
(*   SpecThreads   the worker threads of convert_cogs_threaded.py          *)
(*   SpecCoco      merge_coco_annotations over bounded annotation files    *)
(*                                                                         *)
(* Text is modelled as a sequence of one-character strings, so that        *)
(* formatting, parsing, comparing and splitting are computed.              *)
(***************************************************************************)
EXTENDS Integers, Sequences, FiniteSets, TLC

VARIABLES
    gridArgs,      \* the arguments of one compute_chip_grid call
    chips,         \* generate_chip_manifest.compute_chip_grid's return value
    jobChips,      \* cloudrun/chip_manifest_job.compute_chip_grid's return value
    called,        \* which of the two copies have returned
    sourceBlobs,   \* bucket: the names of the objects under the source prefix cogs/
    taskSummary,   \* task index -> what main() of that task printed at its end
    retried,       \* task indexes of the current execution that ran more than once
    taskCount,     \* CLOUD_RUN_TASK_COUNT of the current job execution (0: none yet)
    tasksDone,     \* task indexes of the current execution whose main() returned
    uploaded,      \* task indexes of the current execution that uploaded a partial
    partials,      \* bucket: task index -> rows of chip_manifests/partial/task_NNN.csv
    localFiles,    \* the partial CSVs the last merge downloaded, in listing order
    localOutput,   \* the merge's local chip-manifest.csv: NoFile or File(rows)
    finalManifest, \* bucket: chip-manifest.csv: NoFile or File(rows)
    mergePc,       \* the merge script: "none" (never run), "downloaded", "merged",
                   \* "complete" (uploaded), "crashed" (raised before the upload)
    mergeFresh,    \* no task ran and no execution started since the last download
    readArgs,      \* the (bin_name, count) of the read_manifest call, None before it
    readChips,     \* what that call returned
    coordCall,     \* the arguments of the generate_random_chip_coords call, None before it
    coordResult,   \* how that call ended: what it raised, what it returned
    validCall,     \* the chip and image size of the ChipCoords.is_valid call, None before it
    validResult,   \* what that call returned
    cellCall,      \* the arguments of the generate_non_overlapping_grid_coords call
    cellResult,    \* how that call ended: what it raised, what it returned
    convTaskCount, \* CLOUD_RUN_TASK_COUNT of the COG conversion job (0: not started)
    cogBlobs,      \* bucket: the names of the objects under cogs/ the conversion job sees
    convTasks,     \* task index -> where its main() is, the files it has left, what it
                   \* converted and what failed
    convAtStart,   \* the source files that had no COG when the job started
    outputDir,     \* batch_extract_chips.py: the chip files under the output directory
    batchReports,  \* the counts each run of process_cog_batch printed, oldest first
    batchDirs,     \* the contents of the output directory after each run
    num_workers,   \* convert_cogs_threaded.py: NUM_WORKERS (0: main() not started)
    stats,         \* the global stats dict
    progress_lock, \* the thread that holds progress_lock, or Unlocked
    futures,       \* source file -> where its convert_one_file call is
    threadCogs,    \* bucket: the names of the objects under cogs/ the converter sees
    annotation_files, \* merge_coco_annotations.py: the contents of the files to merge
    cocoResult     \* how merge_coco_annotations ended: what it raised, what it saved

gridVars == <<gridArgs, chips, jobChips, called>>
jobVars == <<sourceBlobs, taskSummary, retried, taskCount, tasksDone, uploaded, partials, localFiles, localOutput,
             finalManifest, mergePc, mergeFresh>>
readVars == <<readArgs, readChips>>
pipelineVars == <<gridVars, jobVars, readVars>>
coordVars == <<coordCall, coordResult, validCall, validResult>>
cellVars == <<cellCall, cellResult>>
convVars == <<convTaskCount, cogBlobs, convTasks, convAtStart>>
batchVars == <<outputDir, batchReports, batchDirs>>
threadVars == <<num_workers, stats, progress_lock, futures, threadCogs>>
cocoVars == <<annotation_files, cocoResult>>
toolVars == <<coordVars, cellVars, convVars, batchVars, threadVars, cocoVars>>
vars == <<gridArgs, chips, jobChips, called, sourceBlobs, taskSummary, retried,
          taskCount, tasksDone, uploaded, partials,
          localFiles, localOutput, finalManifest, mergePc, mergeFresh, readArgs, readChips,
          toolVars>>

(***************************************************************************)
(* Bounds of the model.                                                    *)
(***************************************************************************)
MaxDim == 9        \* largest small image width/height tried
MaxChip == 2       \* largest small chip_size tried
MaxGrid == 3       \* largest small grid_x / grid_y tried
MaxMargin == 1     \* largest small margin tried
MaxTasks == 2      \* largest CLOUD_RUN_TASK_COUNT tried
NumTokens == 3     \* how many of the 676 random tokens are explored
MaxCount == 2      \* largest read_manifest count tried
MaxEdge == 2       \* largest margin of generate_random_chip_coords tried
MaxNumChips == 4   \* largest num_chips tried
MaxRuns == 2       \* how often process_cog_batch is run
MaxHash == 1       \* largest value of hash(image_name) explored
MaxWorkers == 2    \* largest NUM_WORKERS tried
MaxCocoFiles == 2  \* largest number of annotation files merged

(***************************************************************************)
(* Defaults of compute_chip_grid's signature.                              *)
(***************************************************************************)
DefaultChipSize == 1024
DefaultGridX == 6
DefaultGridY == 5
DefaultMargin == 10

(***************************************************************************)
(* generate_chip_manifest.py: compute_chip_grid                            *)
(***************************************************************************)
required_width(chip_size, grid_x, margin) == (grid_x * chip_size) + (2 * margin)

required_height(chip_size, grid_y, margin) == (grid_y * chip_size) + (2 * margin)

\* A mutated feasibility test: the margins are forgotten.
TooSmallNoMargin(width, height, chip_size, grid_x, grid_y, margin) ==
    width < grid_x * chip_size \/ height < grid_y * chip_size

\* `if width < required_width or height < required_height: return []`
TooSmall(width, height, chip_size, grid_x, grid_y, margin) ==
    \/ width < required_width(chip_size, grid_x, margin)
    \/ height < required_height(chip_size, grid_y, margin)

\* A mutated spacing: the remainder is rounded up instead of down.
SpacingCeil(dimension, chip_size, grid_n, margin) ==
    IF grid_n > 1
    THEN ((dimension - (2 * margin)) - (grid_n * chip_size) + (grid_n - 2)) \div (grid_n - 1)
    ELSE 0

\* A mutated spacing: the whole dimension is spread, not the usable one.
SpacingFullDim(dimension, chip_size, grid_n, margin) ==
    IF grid_n > 1 THEN (dimension - (grid_n * chip_size)) \div (grid_n - 1) ELSE 0

\* usable = dimension - 2*margin; spacing = (usable - n*chip_size) // (n - 1) if n > 1 else 0
Spacing(dimension, chip_size, grid_n, margin) ==
    IF grid_n > 1
    THEN ((dimension - (2 * margin)) - (grid_n * chip_size)) \div (grid_n - 1)
    ELSE 0

\* A mutated corner: the margin offset is forgotten.
ChipUlNoMargin(margin, index, chip_size, spacing) == index * (chip_size + spacing)

\* ulx = margin + (col * (chip_size + spacing_x)), and the same for uly with row
ChipUl(margin, index, chip_size, spacing) == margin + (index * (chip_size + spacing))

\* `if ulx + chip_size <= width - margin and uly + chip_size <= height - margin`
StaysWithinBounds(ulx, uly, width, height, chip_size, margin) ==
    ulx + chip_size <= width - margin /\ uly + chip_size <= height - margin

\* for col in range(grid_x): ... chips.append((ulx, uly))
RECURSIVE GridCols(_, _, _, _, _, _, _, _)
GridCols(row, col, width, height, chip_size, grid_x, grid_y, margin) ==
    IF col >= grid_x THEN <<>>
    ELSE LET ulx == ChipUl(margin, col, chip_size, Spacing(width, chip_size, grid_x, margin))
             uly == ChipUl(margin, row, chip_size, Spacing(height, chip_size, grid_y, margin))
             here == IF StaysWithinBounds(ulx, uly, width, height, chip_size, margin)
                     THEN << <<ulx, uly>> >> ELSE <<>>
         IN  here \o GridCols(row, col + 1, width, height, chip_size, grid_x, grid_y, margin)

\* for row in range(grid_y): ...
RECURSIVE GridRows(_, _, _, _, _, _, _)
GridRows(row, width, height, chip_size, grid_x, grid_y, margin) ==
    IF row >= grid_y THEN <<>>
    ELSE GridCols(row, 0, width, height, chip_size, grid_x, grid_y, margin)
         \o GridRows(row + 1, width, height, chip_size, grid_x, grid_y, margin)

compute_chip_grid(width, height, chip_size, grid_x, grid_y, margin) ==
    IF TooSmall(width, height, chip_size, grid_x, grid_y, margin) THEN <<>>
    ELSE GridRows(0, width, height, chip_size, grid_x, grid_y, margin)

(***************************************************************************)
(* cloudrun/chip_manifest_job.py: compute_chip_grid                        *)
(***************************************************************************)
job_compute_chip_grid(width, height, chip_size, grid_x, grid_y, margin) ==
    LET required_w == (grid_x * chip_size) + (2 * margin)
        required_h == (grid_y * chip_size) + (2 * margin)
        usable_width == width - (2 * margin)
        usable_height == height - (2 * margin)
        spacing_x == IF grid_x > 1
                     THEN (usable_width - (grid_x * chip_size)) \div (grid_x - 1) ELSE 0
        spacing_y == IF grid_y > 1
                     THEN (usable_height - (grid_y * chip_size)) \div (grid_y - 1) ELSE 0
        RECURSIVE Cols(_, _)
        Cols(row, col) ==
            IF col >= grid_x THEN <<>>
            ELSE LET ulx == margin + (col * (chip_size + spacing_x))
                     uly == margin + (row * (chip_size + spacing_y))
                 IN  (IF ulx + chip_size <= width - margin /\ uly + chip_size <= height - margin
                      THEN << <<ulx, uly>> >> ELSE <<>>) \o Cols(row, col + 1)
        RECURSIVE Rows(_)
        Rows(row) == IF row >= grid_y THEN <<>> ELSE Cols(row, 0) \o Rows(row + 1)
    IN  IF width < required_w \/ height < required_h THEN <<>> ELSE Rows(0)

(***************************************************************************)
(* Inputs of the grid specification.                                       *)
(***************************************************************************)
SmallGridArgs ==
    [width : 0..MaxDim, height : 0..MaxDim, chip_size : 0..MaxChip,
     grid_x : 0..MaxGrid, grid_y : 0..MaxGrid, margin : 0..MaxMargin]

\* The default configuration around its feasibility thresholds (6164 x 5140),
\* and the 10000 x 8000 image of generate_chip_manifest.main's simulation.
DefaultGridArgs ==
    [width : {6163, 6164, 6165, 10000, 13000}, height : {5139, 5140, 5141, 8000},
     chip_size : {DefaultChipSize}, grid_x : {DefaultGridX}, grid_y : {DefaultGridY},
     margin : {DefaultMargin}]

NoArgs == [width |-> 0, height |-> 0, chip_size |-> 0, grid_x |-> 0, grid_y |-> 0, margin |-> 0]

GridInit ==
    /\ gridArgs \in SmallGridArgs \cup DefaultGridArgs
    /\ chips = <<>>
    /\ jobChips = <<>>
    /\ called = {}

GridIdle ==
    /\ gridArgs = NoArgs
    /\ chips = <<>>
    /\ jobChips = <<>>
    /\ called = {}

CallComputeChipGrid ==
    /\ "local" \notin called
    /\ chips' = compute_chip_grid(gridArgs.width, gridArgs.height, gridArgs.chip_size,
                                  gridArgs.grid_x, gridArgs.grid_y, gridArgs.margin)
    /\ called' = called \cup {"local"}
    /\ UNCHANGED <<gridArgs, jobChips>>
    /\ UNCHANGED jobVars
    /\ UNCHANGED readVars
    /\ UNCHANGED toolVars

CallJobComputeChipGrid ==
    /\ "job" \notin called
    /\ jobChips' = job_compute_chip_grid(gridArgs.width, gridArgs.height, gridArgs.chip_size,
                                         gridArgs.grid_x, gridArgs.grid_y, gridArgs.margin)
    /\ called' = called \cup {"job"}
    /\ UNCHANGED <<gridArgs, chips>>
    /\ UNCHANGED jobVars
    /\ UNCHANGED readVars
    /\ UNCHANGED toolVars

(***************************************************************************)
(* The source bucket (external collaborator).                              *)
(***************************************************************************)
CogUnreadable == <<"c", "o", "g", "s", "/", "c", "a", "p", "-", "1", ".", "t", "i", "f">>
CogTiled == <<"c", "o", "g", "s", "/", "c", "a", "p", "-", "3", "3", ".", "t", "i", "f">>
CogWide == <<"c", "o", "g", "s", "/", "c", "a", "p", "-", "6", ".", "t", "i", "f">>
CogSmall == <<"c", "o", "g", "s", "/", "c", "a", "p", "-", "7", ".", "t", "i", "f">>

\* bucket.list_blobs(prefix="cogs/"): the objects under the source prefix
SourceBlobs ==
    { <<"c", "o", "g", "s", "/">>, CogUnreadable, CogTiled, CogWide, CogSmall,
      <<"c", "o", "g", "s", "/", "c", "a", "p", "-", "7", ".", "t", "i", "f", ".", "a", "u", "x", ".", "x", "m", "l">> }

\* The COGs the bucket may hold
Cogs == {CogUnreadable, CogTiled, CogWide, CogSmall}

\* The contents the source prefix can have: any of the COGs, besides the
\* objects that are no COG
Corpora == { (SourceBlobs \ Cogs) \cup present : present \in SUBSET Cogs }

\* A file is absent, or holds a sequence of CSV rows (after its header line).
NoFile == <<>>

File(rows) == <<rows>>

Rows(file) == file[1]

JobIdle ==
    /\ sourceBlobs = SourceBlobs
    /\ taskSummary = <<>>
    /\ retried = {}
    /\ taskCount = 0
    /\ tasksDone = {}
    /\ uploaded = {}
    /\ partials = <<>>
    /\ localFiles = <<>>
    /\ localOutput = NoFile
    /\ finalManifest = NoFile
    /\ mergePc = "none"
    /\ mergeFresh = FALSE

\* None, as the value of an argument left out
NoneValue == [type |-> "none"]

ReadIdle ==
    /\ readArgs = NoneValue
    /\ readChips = <<>>

\* Neither generate_random_chip_coords nor is_valid has been called
CoordIdle ==
    /\ coordCall = NoneValue
    /\ coordResult = NoneValue
    /\ validCall = NoneValue
    /\ validResult = NoneValue

\* The scripts beside the manifest pipeline have not run
\* generate_non_overlapping_grid_coords has not been called
CellIdle ==
    /\ cellCall = NoneValue
    /\ cellResult = NoneValue

\* The COG conversion job has not been started
ConvIdle ==
    /\ convTaskCount = 0
    /\ cogBlobs = {}
    /\ convTasks = <<>>
    /\ convAtStart = {}

\* process_cog_batch has never run: there is no output directory
BatchIdle ==
    /\ outputDir = {}
    /\ batchReports = <<>>
    /\ batchDirs = <<>>

\* progress_lock = Lock(): held by nobody
Unlocked == <<>>

\* stats = {"processed": 0, "skipped": 0, "failed": 0, "total": 0}
StatsAtImport == [processed |-> 0, skipped |-> 0, failed |-> 0, total |-> 0]

\* convert_cogs_threaded.py has been imported, main() has not started
ThreadIdle ==
    /\ num_workers = 0
    /\ stats = StatsAtImport
    /\ progress_lock = Unlocked
    /\ futures = <<>>
    /\ threadCogs = {}

\* merge_coco_annotations has not been called
CocoIdle ==
    /\ annotation_files = <<>>
    /\ cocoResult = NoneValue

ToolsIdle ==
    /\ CoordIdle
    /\ CellIdle
    /\ ConvIdle
    /\ BatchIdle
    /\ ThreadIdle
    /\ CocoIdle

InitGrid == GridInit /\ JobIdle /\ ReadIdle /\ ToolsIdle

NextGrid == CallComputeChipGrid \/ CallJobComputeChipGrid

SpecGrid == InitGrid /\ [][NextGrid]_vars

(***************************************************************************)
(* Python text: str comparison, str(int), int(str), endswith, Path.stem,   *)
(* str.lower, chr.                                                         *)
(***************************************************************************)
\* ord() of the characters that occur in the model
Ord ==
    ("-" :> 45) @@ ("." :> 46) @@ ("/" :> 47) @@ ("0" :> 48) @@ ("1" :> 49) @@ ("2" :> 50)
    @@ ("3" :> 51) @@ ("4" :> 52) @@ ("5" :> 53) @@ ("6" :> 54) @@ ("7" :> 55) @@ ("8" :> 56)
    @@ ("9" :> 57) @@ ("A" :> 65) @@ ("B" :> 66) @@ ("C" :> 67) @@ ("D" :> 68) @@ ("E" :> 69)
    @@ ("F" :> 70) @@ ("G" :> 71) @@ ("H" :> 72) @@ ("I" :> 73) @@ ("J" :> 74) @@ ("K" :> 75)
    @@ ("L" :> 76) @@ ("M" :> 77) @@ ("N" :> 78) @@ ("O" :> 79) @@ ("P" :> 80) @@ ("Q" :> 81)
    @@ ("R" :> 82) @@ ("S" :> 83) @@ ("T" :> 84) @@ ("U" :> 85) @@ ("V" :> 86) @@ ("W" :> 87)
    @@ ("X" :> 88) @@ ("Y" :> 89) @@ ("_" :> 95) @@ ("a" :> 97) @@ ("b" :> 98) @@ ("c" :> 99)
    @@ ("d" :> 100) @@ ("e" :> 101) @@ ("f" :> 102) @@ ("g" :> 103) @@ ("h" :> 104) @@ ("i" :> 105)
    @@ ("j" :> 106) @@ ("k" :> 107) @@ ("l" :> 108) @@ ("m" :> 109) @@ ("n" :> 110) @@ ("o" :> 111)
    @@ ("p" :> 112) @@ ("q" :> 113) @@ ("r" :> 114) @@ ("s" :> 115) @@ ("t" :> 116) @@ ("u" :> 117)
    @@ ("v" :> 118) @@ ("w" :> 119) @@ ("x" :> 120) @@ ("y" :> 121) @@ ("z" :> 122)

Digits == <<"0", "1", "2", "3", "4", "5", "6", "7", "8", "9">>

HexDigits == <<"0", "1", "2", "3", "4", "5", "6", "7", "8", "9", "a", "b", "c", "d", "e", "f">>

\* chr(65 + i) and chr(97 + i), i = 0..25
UpperCase == <<"A", "B", "C", "D", "E", "F", "G", "H", "I", "J", "K", "L", "M", "N", "O", "P", "Q", "R", "S", "T", "U", "V", "W", "X", "Y", "Z">>

LowerCase == <<"a", "b", "c", "d", "e", "f", "g", "h", "i", "j", "k", "l", "m", "n", "o", "p", "q", "r", "s", "t", "u", "v", "w", "x", "y", "z">>

IndexOf(tbl, c) == CHOOSE i \in 1..Len(tbl) : tbl[i] = c

\* str(n) for n >= 0
RECURSIVE IntToStr(_)
IntToStr(n) == IF n < 10 THEN <<Digits[n + 1]>>
               ELSE IntToStr(n \div 10) \o <<Digits[(n % 10) + 1]>>

\* int(s) for a string of decimal digits
RECURSIVE StrToInt(_)
StrToInt(s) == IF Len(s) = 0 THEN 0
               ELSE StrToInt(SubSeq(s, 1, Len(s) - 1)) * 10 + (IndexOf(Digits, s[Len(s)]) - 1)

\* a < b for two str: by code point at the first difference, a proper prefix first
RECURSIVE StrLess(_, _)
StrLess(a, b) ==
    IF Len(b) = 0 THEN FALSE
    ELSE IF Len(a) = 0 THEN TRUE
    ELSE IF a[1] # b[1] THEN Ord[a[1]] < Ord[b[1]]
    ELSE StrLess(Tail(a), Tail(b))

EndsWith(s, suffix) ==
    Len(s) >= Len(suffix) /\ SubSeq(s, Len(s) - Len(suffix) + 1, Len(s)) = suffix

LastIndexOf(s, c) == IF \E i \in 1..Len(s) : s[i] = c
                     THEN CHOOSE i \in 1..Len(s) : s[i] = c /\ \A j \in (i + 1)..Len(s) : s[j] # c
                     ELSE 0

\* s.split(sep)[0]: what precedes the first sep, all of s when it has none
SplitFirst(s, sep) ==
    IF \E i \in 1..Len(s) : s[i] = sep
    THEN SubSeq(s, 1, (CHOOSE i \in 1..Len(s) : s[i] = sep /\ \A j \in 1..(i - 1) : s[j] # sep) - 1)
    ELSE s

\* Path(p).name: what follows the last "/"
PathName(p) == SubSeq(p, LastIndexOf(p, "/") + 1, Len(p))

\* Path(p).stem: the name without its last suffix (a leading dot starts no suffix)
PathStem(p) == LET name == PathName(p)
                   dot == LastIndexOf(name, ".")
               IN  IF dot > 1 THEN SubSeq(name, 1, dot - 1) ELSE name

\* str.lower() on letters A..Z; other characters are kept
Lower(s) == [i \in 1..Len(s) |->
                IF \E k \in 1..Len(UpperCase) : UpperCase[k] = s[i]
                THEN LowerCase[IndexOf(UpperCase, s[i])] ELSE s[i]]

\* The text as one TLA+ string (used as the key of the digest table).
RECURSIVE Join(_)
Join(s) == IF s = <<>> THEN "" ELSE s[1] \o Join(Tail(s))

\* sorted() of a set of str, ascending
RECURSIVE SortedStrs(_)
SortedStrs(S) ==
    IF S = {} THEN <<>>
    ELSE LET least == CHOOSE x \in S : \A y \in S \ {x} : StrLess(x, y)
         IN  <<least>> \o SortedStrs(S \ {least})

(***************************************************************************)
(* chip_manifest_job.py: bin labels, random token, hash                    *)
(***************************************************************************)
\* letters = [chr(65 + i) for i in range(25)]
NumBinLetters == 25

\* The labels over all 26 letters, Z included
BinLabelsWithZ ==
    [k \in 1..(26 * 26) |-> << UpperCase[((k - 1) \div 26) + 1], UpperCase[((k - 1) % 26) + 1] >>]

\* for first in letters: for second in letters: bins.append(first + second)
generate_bin_labels ==
    [k \in 1..(NumBinLetters * NumBinLetters) |->
        << UpperCase[((k - 1) \div NumBinLetters) + 1],
           UpperCase[((k - 1) % NumBinLetters) + 1] >>]

\* letters = [chr(97 + i) for i in range(26)]
NumTokenLetters == 26

\* random.choices(letters, k=2): any of the 676 two-letter tokens.  The model
\* explores the first NumTokens of them (aa, ab, ac, ...).
generate_random_token ==
    { << LowerCase[(k \div NumTokenLetters) + 1], LowerCase[(k % NumTokenLetters) + 1] >> :
        k \in 0..(NumTokens - 1) }

\* hashlib.md5(value.encode()).hexdigest() for the keys "<image>_<idx>" of the
\* modelled images (values computed with hashlib)
MD5HexDigest ==
    ("cap-33_0" :> <<"d", "0", "0", "d", "1", "8", "a", "1", "e", "9", "5", "9", "8", "f", "a", "6", "b", "1", "6", "9", "a", "b", "e", "d", "a", "b", "2", "b", "0", "b", "f", "7">>)
    @@ ("cap-33_1" :> <<"2", "e", "8", "c", "6", "d", "c", "0", "4", "2", "6", "d", "3", "2", "9", "2", "e", "0", "7", "4", "4", "d", "a", "1", "b", "3", "e", "9", "2", "f", "2", "4">>)
    @@ ("cap-33_2" :> <<"c", "2", "f", "b", "e", "b", "4", "b", "c", "6", "6", "a", "a", "6", "8", "3", "1", "5", "0", "2", "9", "5", "d", "c", "3", "6", "6", "7", "c", "2", "f", "0">>)
    @@ ("cap-33_3" :> <<"6", "4", "2", "0", "a", "b", "c", "d", "4", "8", "a", "9", "8", "f", "a", "e", "7", "e", "2", "4", "d", "d", "9", "d", "1", "7", "7", "b", "3", "c", "b", "1">>)
    @@ ("cap-33_4" :> <<"5", "b", "6", "9", "8", "6", "9", "4", "2", "8", "3", "c", "e", "9", "e", "b", "4", "8", "8", "0", "c", "1", "b", "f", "4", "e", "0", "6", "a", "0", "b", "e">>)
    @@ ("cap-33_5" :> <<"d", "2", "d", "f", "a", "0", "4", "9", "8", "1", "7", "c", "e", "2", "d", "6", "2", "2", "4", "1", "c", "9", "f", "3", "b", "7", "6", "1", "8", "9", "7", "4">>)
    @@ ("cap-33_6" :> <<"d", "7", "1", "9", "3", "b", "1", "c", "c", "f", "f", "d", "b", "c", "1", "f", "f", "8", "7", "6", "5", "4", "0", "6", "1", "e", "c", "5", "b", "f", "0", "6">>)
    @@ ("cap-33_7" :> <<"a", "2", "0", "a", "5", "9", "1", "5", "1", "a", "6", "a", "6", "e", "f", "b", "8", "e", "b", "5", "6", "8", "0", "9", "d", "9", "2", "c", "2", "f", "a", "8">>)
    @@ ("cap-33_8" :> <<"2", "2", "2", "7", "b", "e", "f", "5", "6", "1", "6", "0", "e", "f", "d", "7", "1", "9", "b", "d", "7", "1", "4", "c", "f", "6", "7", "2", "e", "c", "9", "c">>)
    @@ ("cap-33_9" :> <<"a", "6", "b", "3", "6", "f", "7", "9", "5", "e", "2", "0", "d", "3", "8", "7", "d", "d", "2", "4", "2", "a", "1", "d", "3", "a", "8", "f", "3", "7", "4", "f">>)
    @@ ("cap-33_10" :> <<"8", "f", "5", "f", "8", "8", "1", "6", "2", "3", "6", "8", "e", "a", "a", "b", "0", "b", "d", "0", "7", "e", "f", "a", "e", "a", "0", "6", "d", "6", "2", "5">>)
    @@ ("cap-33_11" :> <<"4", "3", "5", "4", "3", "4", "e", "6", "6", "9", "7", "c", "8", "9", "0", "a", "5", "6", "8", "c", "1", "3", "0", "3", "a", "a", "c", "b", "3", "a", "d", "6">>)
    @@ ("cap-33_12" :> <<"e", "3", "7", "9", "8", "b", "c", "1", "b", "f", "6", "8", "7", "a", "b", "e", "0", "4", "f", "a", "0", "0", "a", "9", "9", "2", "f", "7", "9", "c", "5", "1">>)
    @@ ("cap-33_13" :> <<"5", "8", "6", "0", "b", "9", "d", "7", "3", "f", "9", "7", "e", "7", "7", "a", "c", "4", "2", "3", "f", "d", "9", "d", "9", "7", "e", "e", "e", "4", "e", "c">>)
    @@ ("cap-33_14" :> <<"b", "d", "f", "7", "5", "e", "a", "a", "d", "e", "5", "6", "1", "f", "a", "a", "a", "c", "a", "2", "9", "7", "e", "9", "5", "3", "f", "5", "8", "d", "e", "b">>)
    @@ ("cap-33_15" :> <<"5", "6", "5", "8", "f", "5", "d", "1", "b", "e", "6", "d", "0", "4", "6", "e", "6", "d", "2", "4", "7", "9", "4", "8", "7", "9", "d", "a", "8", "0", "8", "2">>)
    @@ ("cap-33_16" :> <<"2", "3", "c", "6", "1", "6", "b", "9", "8", "f", "7", "f", "5", "4", "4", "3", "f", "7", "7", "1", "9", "4", "3", "e", "6", "c", "d", "d", "1", "9", "c", "5">>)
    @@ ("cap-33_17" :> <<"7", "2", "3", "f", "1", "c", "3", "6", "1", "e", "e", "9", "e", "d", "4", "4", "2", "c", "5", "c", "3", "0", "c", "b", "3", "5", "c", "4", "1", "a", "2", "2">>)
    @@ ("cap-33_18" :> <<"4", "c", "7", "a", "4", "7", "1", "4", "0", "b", "c", "7", "c", "7", "6", "5", "f", "7", "a", "7", "2", "3", "2", "7", "b", "8", "a", "0", "7", "c", "c", "a">>)
    @@ ("cap-33_19" :> <<"3", "3", "e", "e", "0", "9", "2", "d", "0", "c", "1", "0", "c", "f", "3", "4", "4", "e", "6", "b", "b", "2", "6", "d", "9", "8", "2", "1", "8", "8", "b", "9">>)
    @@ ("cap-33_20" :> <<"c", "e", "4", "f", "0", "4", "a", "3", "e", "7", "0", "b", "7", "2", "2", "a", "f", "d", "0", "8", "8", "5", "e", "d", "c", "d", "c", "4", "3", "4", "b", "a">>)
    @@ ("cap-33_21" :> <<"4", "7", "7", "1", "6", "5", "5", "f", "6", "a", "2", "6", "b", "4", "6", "b", "3", "7", "2", "8", "9", "7", "3", "e", "6", "4", "a", "e", "0", "7", "a", "b">>)
    @@ ("cap-33_22" :> <<"9", "f", "f", "1", "c", "1", "d", "4", "8", "d", "2", "a", "5", "d", "6", "6", "9", "0", "c", "a", "b", "1", "5", "5", "b", "5", "3", "8", "d", "4", "c", "a">>)
    @@ ("cap-33_23" :> <<"0", "e", "6", "9", "d", "4", "e", "3", "b", "a", "4", "1", "c", "9", "0", "4", "b", "2", "4", "f", "5", "b", "5", "6", "f", "4", "1", "3", "a", "f", "d", "7">>)
    @@ ("cap-33_24" :> <<"2", "3", "7", "b", "2", "b", "d", "9", "3", "e", "4", "f", "5", "1", "e", "4", "7", "7", "8", "5", "c", "a", "3", "3", "7", "9", "a", "f", "2", "5", "a", "b">>)
    @@ ("cap-33_25" :> <<"2", "9", "a", "5", "9", "9", "a", "b", "3", "8", "8", "1", "b", "d", "4", "3", "b", "1", "d", "a", "8", "0", "6", "d", "b", "5", "2", "2", "3", "e", "6", "c">>)
    @@ ("cap-33_26" :> <<"f", "8", "e", "1", "c", "8", "1", "7", "f", "0", "a", "d", "3", "f", "8", "8", "2", "1", "1", "8", "2", "7", "3", "6", "c", "a", "7", "c", "1", "b", "9", "e">>)
    @@ ("cap-33_27" :> <<"f", "d", "0", "b", "5", "5", "8", "c", "d", "a", "6", "9", "e", "e", "f", "1", "4", "b", "6", "5", "8", "4", "7", "e", "a", "2", "6", "9", "7", "7", "2", "a">>)
    @@ ("cap-33_28" :> <<"8", "8", "1", "8", "a", "7", "4", "c", "2", "5", "7", "8", "8", "9", "a", "8", "4", "5", "d", "7", "5", "3", "7", "e", "4", "c", "3", "f", "8", "4", "9", "b">>)
    @@ ("cap-33_29" :> <<"2", "3", "0", "7", "7", "b", "8", "4", "2", "e", "8", "5", "8", "7", "9", "9", "8", "1", "b", "4", "d", "2", "8", "3", "3", "b", "b", "d", "6", "e", "8", "a">>)
    @@ ("cap-6_0" :> <<"b", "3", "d", "0", "9", "2", "a", "5", "5", "6", "1", "1", "2", "c", "3", "c", "c", "f", "1", "4", "6", "c", "6", "1", "9", "f", "a", "d", "e", "5", "c", "6">>)
    @@ ("cap-6_1" :> <<"9", "d", "7", "6", "6", "d", "8", "5", "c", "6", "a", "b", "2", "d", "0", "b", "7", "3", "2", "3", "c", "8", "5", "c", "4", "d", "e", "c", "b", "d", "0", "f">>)
    @@ ("cap-6_2" :> <<"d", "7", "9", "e", "6", "b", "4", "e", "3", "d", "e", "d", "5", "f", "d", "0", "3", "4", "f", "d", "5", "7", "3", "c", "b", "9", "8", "4", "d", "4", "e", "e">>)
    @@ ("cap-6_3" :> <<"9", "9", "4", "a", "5", "2", "2", "8", "f", "2", "f", "0", "c", "0", "4", "e", "4", "5", "2", "1", "2", "2", "8", "d", "d", "6", "b", "f", "b", "d", "f", "9">>)
    @@ ("cap-6_4" :> <<"1", "c", "4", "a", "6", "a", "1", "8", "1", "2", "4", "5", "f", "f", "e", "c", "4", "4", "a", "8", "f", "6", "4", "2", "0", "e", "1", "1", "0", "8", "c", "4">>)
    @@ ("cap-6_5" :> <<"b", "3", "d", "2", "1", "c", "6", "c", "0", "b", "3", "a", "5", "8", "6", "3", "2", "2", "4", "0", "d", "b", "1", "c", "3", "8", "3", "b", "7", "5", "2", "c">>)
    @@ ("cap-6_6" :> <<"0", "5", "d", "7", "2", "2", "d", "4", "7", "7", "b", "8", "1", "5", "b", "b", "9", "3", "c", "8", "c", "b", "e", "8", "6", "7", "b", "d", "a", "9", "3", "b">>)
    @@ ("cap-6_7" :> <<"c", "3", "2", "d", "e", "4", "6", "2", "f", "2", "7", "2", "0", "0", "a", "4", "c", "7", "5", "6", "1", "e", "f", "1", "b", "8", "f", "1", "3", "2", "d", "4">>)
    @@ ("cap-6_8" :> <<"7", "1", "2", "f", "5", "d", "6", "b", "0", "7", "e", "a", "4", "d", "4", "7", "e", "1", "9", "e", "a", "a", "8", "9", "1", "3", "9", "1", "c", "7", "3", "2">>)
    @@ ("cap-6_9" :> <<"6", "2", "6", "8", "0", "d", "7", "c", "b", "b", "b", "d", "2", "8", "6", "7", "6", "f", "0", "5", "6", "f", "d", "9", "9", "5", "d", "c", "5", "e", "4", "c">>)
    @@ ("cap-6_10" :> <<"6", "a", "f", "c", "9", "0", "4", "b", "8", "8", "8", "3", "e", "4", "8", "a", "2", "8", "a", "7", "f", "1", "1", "6", "8", "f", "1", "e", "d", "7", "5", "f">>)
    @@ ("cap-6_11" :> <<"3", "b", "9", "f", "a", "6", "2", "b", "7", "f", "d", "7", "7", "9", "a", "3", "a", "7", "a", "4", "a", "c", "1", "a", "b", "2", "d", "b", "d", "4", "9", "a">>)
    @@ ("cap-6_12" :> <<"b", "5", "1", "0", "7", "f", "3", "b", "9", "e", "c", "3", "1", "2", "0", "5", "c", "b", "2", "5", "b", "7", "1", "4", "1", "b", "9", "8", "e", "2", "8", "f">>)
    @@ ("cap-6_13" :> <<"a", "7", "0", "e", "8", "9", "b", "9", "9", "1", "a", "f", "f", "4", "5", "1", "d", "e", "a", "f", "7", "0", "d", "0", "8", "f", "d", "1", "1", "c", "8", "5">>)
    @@ ("cap-6_14" :> <<"0", "7", "1", "a", "6", "8", "c", "e", "a", "b", "9", "c", "d", "2", "2", "b", "6", "d", "1", "9", "8", "a", "6", "4", "0", "1", "e", "6", "8", "1", "7", "3">>)
    @@ ("cap-6_15" :> <<"2", "2", "2", "b", "5", "0", "5", "d", "6", "b", "6", "9", "a", "3", "c", "4", "8", "6", "a", "e", "9", "e", "9", "9", "9", "0", "e", "8", "b", "e", "4", "0">>)
    @@ ("cap-6_16" :> <<"e", "e", "e", "a", "3", "7", "8", "e", "f", "7", "3", "9", "7", "1", "1", "3", "9", "3", "c", "d", "e", "c", "2", "6", "4", "6", "6", "5", "c", "7", "1", "2">>)
    @@ ("cap-6_17" :> <<"b", "4", "b", "2", "0", "f", "3", "b", "a", "6", "0", "9", "6", "2", "3", "1", "d", "6", "1", "7", "a", "4", "0", "e", "a", "f", "5", "0", "3", "e", "5", "8">>)
    @@ ("cap-6_18" :> <<"0", "1", "0", "8", "9", "0", "d", "4", "3", "a", "2", "4", "5", "c", "7", "a", "2", "b", "1", "7", "2", "8", "6", "5", "1", "8", "1", "5", "a", "7", "c", "5">>)
    @@ ("cap-6_19" :> <<"6", "a", "7", "c", "5", "c", "7", "9", "c", "6", "c", "b", "e", "4", "b", "e", "b", "b", "9", "2", "f", "4", "b", "d", "2", "3", "8", "e", "f", "9", "e", "7">>)
    @@ ("cap-6_20" :> <<"5", "1", "7", "4", "e", "b", "c", "4", "2", "5", "e", "a", "9", "1", "f", "9", "e", "a", "1", "1", "d", "3", "a", "9", "9", "7", "9", "2", "8", "1", "0", "3">>)
    @@ ("cap-6_21" :> <<"a", "7", "6", "9", "b", "8", "1", "0", "c", "8", "4", "7", "d", "6", "1", "7", "0", "d", "4", "3", "d", "2", "3", "9", "6", "d", "3", "2", "e", "3", "e", "0">>)
    @@ ("cap-6_22" :> <<"a", "6", "4", "3", "3", "2", "f", "6", "d", "5", "0", "6", "1", "2", "8", "3", "9", "e", "b", "c", "c", "b", "7", "3", "b", "3", "c", "0", "4", "a", "a", "5">>)
    @@ ("cap-6_23" :> <<"1", "d", "f", "4", "f", "b", "8", "f", "3", "1", "8", "2", "8", "9", "b", "a", "4", "d", "7", "e", "8", "5", "a", "6", "c", "9", "f", "e", "e", "3", "e", "c">>)
    @@ ("cap-6_24" :> <<"8", "1", "c", "a", "5", "c", "b", "1", "1", "b", "4", "0", "1", "c", "d", "5", "2", "7", "7", "5", "2", "8", "1", "6", "5", "6", "b", "c", "b", "0", "8", "4">>)
    @@ ("cap-6_25" :> <<"e", "d", "1", "e", "9", "4", "2", "3", "3", "c", "2", "5", "3", "b", "1", "b", "0", "2", "d", "1", "0", "6", "6", "d", "2", "b", "f", "2", "f", "d", "7", "c">>)
    @@ ("cap-6_26" :> <<"f", "9", "7", "a", "4", "6", "b", "1", "c", "e", "1", "f", "2", "5", "f", "b", "3", "1", "6", "5", "c", "4", "3", "1", "0", "e", "7", "0", "f", "d", "3", "f">>)
    @@ ("cap-6_27" :> <<"3", "c", "5", "2", "b", "d", "b", "a", "6", "3", "1", "2", "5", "3", "d", "0", "0", "e", "0", "6", "2", "d", "9", "7", "8", "4", "d", "8", "4", "0", "8", "3">>)
    @@ ("cap-6_28" :> <<"4", "8", "f", "5", "d", "9", "4", "7", "4", "0", "e", "0", "0", "7", "3", "f", "3", "a", "1", "b", "7", "6", "d", "1", "1", "7", "1", "7", "9", "c", "f", "6">>)
    @@ ("cap-6_29" :> <<"3", "7", "4", "8", "0", "0", "f", "c", "0", "c", "2", "4", "4", "6", "9", "5", "8", "a", "7", "c", "2", "0", "9", "b", "c", "5", "8", "d", "0", "d", "4", "f">>)

\* (16 ** k) % num_bins
RECURSIVE Pow16Mod(_, _)
Pow16Mod(k, num_bins) ==
    IF k = 0 THEN 1 % num_bins
    ELSE IF k = 1 THEN 16 % num_bins
    ELSE (Pow16Mod(k \div 2, num_bins) * Pow16Mod(k - (k \div 2), num_bins)) % num_bins

\* int(hexdigest, 16) % num_bins, reduced half by half:
\* int(left + right, 16) = int(left, 16) * 16 ** len(right) + int(right, 16)
RECURSIVE HexMod(_, _)
HexMod(hex, num_bins) ==
    IF Len(hex) = 0 THEN 0
    ELSE IF Len(hex) = 1 THEN (IndexOf(HexDigits, hex[1]) - 1) % num_bins
    ELSE LET half == Len(hex) \div 2
             right == SubSeq(hex, half + 1, Len(hex))
         IN  (HexMod(SubSeq(hex, 1, half), num_bins) * Pow16Mod(Len(right), num_bins)
              + HexMod(right, num_bins)) % num_bins

hash_to_bin(value, num_bins) == HexMod(MD5HexDigest[Join(value)], num_bins)

(***************************************************************************)
(* The raster metadata (external collaborator).                            *)
(***************************************************************************)
Unreadable == "Unreadable"

\* rasterio.open(gs_path): (src.width, src.height), or an exception
RasterSize ==
    (CogUnreadable :> Unreadable) @@ (CogTiled :> <<10000, 8000>>)
    @@ (CogWide :> <<13000, 8000>>) @@ (CogSmall :> <<6000, 8000>>)

(***************************************************************************)
(* chip_manifest_job.py: list_cogs, process_cog, main                      *)
(***************************************************************************)
\* sorted(blob.name for blob in blobs if name.endswith('.tif') and not name.endswith('/'))
list_cogs(blobs) ==
    SortedStrs({ b \in blobs : EndsWith(b, <<".", "t", "i", "f">>) /\ ~EndsWith(b, <<"/">>) })

\* [cog for i, cog in enumerate(all_cogs) if i % task_count == task_index]
RECURSIVE ShardFrom(_, _, _, _)
ShardFrom(all_cogs, i, task_index, task_count) ==
    IF i >= Len(all_cogs) THEN <<>>
    ELSE (IF i % task_count = task_index THEN <<all_cogs[i + 1]>> ELSE <<>>)
         \o ShardFrom(all_cogs, i + 1, task_index, task_count)

\* The sharding rule with the task numbered from 1, as main() prints it
MyCogsOneBased(all_cogs, task_index, task_count) ==
    ShardFrom(all_cogs, 0, task_index + 1, task_count)

my_cogs(all_cogs, task_index, task_count) == ShardFrom(all_cogs, 0, task_index, task_count)

\* The tokens one process draws, draw 0 first.  The model explores the streams
\* whose first draw is any modelled token and whose later draws all give "aa".
TokenStreams == generate_random_token

DrawnToken(stream, n) == IF n = 0 THEN stream ELSE <<"a", "a">>

\* The path with the token where the bin directory belongs
ChipPathTokenDir(bin_label, random_token, image_name) ==
    random_token \o <<"/">> \o bin_label \o <<"-">> \o random_token \o <<"-">>
    \o image_name \o <<".", "p", "n", "g">>

\* f"{bin_label}-{random_token}-{image_name}.png", under f"{bin_label}/"
ChipPath(bin_label, random_token, image_name) ==
    bin_label \o <<"/">> \o bin_label \o <<"-">> \o random_token \o <<"-">>
    \o image_name \o <<".", "p", "n", "g">>

\* The entry with the bin index shifted by the drawn token's letters
ManifestEntryTokenBin(image_name, idx, ul, bin_labels, random_token) ==
    LET bin_key == image_name \o <<"_">> \o IntToStr(idx)
        bin_idx == (hash_to_bin(bin_key, Len(bin_labels))
                    + Ord[random_token[1]] + Ord[random_token[2]]) % Len(bin_labels)
        bin_label == Lower(bin_labels[bin_idx + 1])
    IN  [chip_path |-> ChipPath(bin_label, random_token, image_name),
         source_image |-> image_name,
         ulx |-> ul[1], uly |-> ul[2], width |-> 1024, height |-> 1024]

\* One pass of `for idx, (ulx, uly) in enumerate(chip_coords)`
ManifestEntry(image_name, idx, ul, bin_labels, random_token) ==
    LET bin_key == image_name \o <<"_">> \o IntToStr(idx)
        bin_idx == hash_to_bin(bin_key, Len(bin_labels))
        bin_label == Lower(bin_labels[bin_idx + 1])
    IN  [chip_path |-> ChipPath(bin_label, random_token, image_name),
         source_image |-> image_name,
         ulx |-> ul[1], uly |-> ul[2], width |-> 1024, height |-> 1024]

\* process_cog with the bin taken round-robin from the task's running chip count
ProcessCogRunningBin(cog_path, bin_labels, stream, drawn) ==
    LET image_name == PathStem(cog_path)
        size == RasterSize[cog_path]
    IN  IF size = Unreadable THEN <<>>
        ELSE LET chip_coords == job_compute_chip_grid(size[1], size[2], DefaultChipSize,
                                                      DefaultGridX, DefaultGridY, DefaultMargin)
             IN  [k \in 1..Len(chip_coords) |->
                     [chip_path |-> ChipPath(Lower(bin_labels[((drawn + k - 1) % Len(bin_labels)) + 1]),
                                             DrawnToken(stream, drawn + k - 1), image_name),
                      source_image |-> image_name,
                      ulx |-> chip_coords[k][1], uly |-> chip_coords[k][2],
                      width |-> 1024, height |-> 1024]]

\* process_cog: the entries of one COG; `drawn` tokens were drawn before it.
\* An unreadable COG raises inside the try and gives [], a small one gives [].
process_cog(cog_path, bin_labels, stream, drawn) ==
    LET image_name == PathStem(cog_path)
        size == RasterSize[cog_path]
    IN  IF size = Unreadable THEN <<>>
        ELSE LET chip_coords == job_compute_chip_grid(size[1], size[2], DefaultChipSize,
                                                      DefaultGridX, DefaultGridY, DefaultMargin)
             IN  [k \in 1..Len(chip_coords) |->
                     ManifestEntry(image_name, k - 1, chip_coords[k], bin_labels,
                                   DrawnToken(stream, drawn + k - 1))]

\* The loop without process_cog's try/except: an unreadable COG ends the task
\* before anything is saved.
RECURSIVE ProcessShardRaise(_, _, _, _)
ProcessShardRaise(cogs, bin_labels, stream, all_entries) ==
    IF cogs = <<>> THEN all_entries
    ELSE IF RasterSize[cogs[1]] = Unreadable THEN <<>>
    ELSE ProcessShardRaise(Tail(cogs), bin_labels, stream,
                           all_entries \o process_cog(cogs[1], bin_labels, stream, Len(all_entries)))

\* `for cog_path in my_cogs: entries = process_cog(...); if entries: all_entries.extend(entries)`
RECURSIVE ProcessShard(_, _, _, _)
ProcessShard(cogs, bin_labels, stream, all_entries) ==
    IF cogs = <<>> THEN all_entries
    ELSE ProcessShard(Tail(cogs), bin_labels, stream,
                      all_entries \o process_cog(cogs[1], bin_labels, stream, Len(all_entries)))

\* `if entries: success_count += 1`, over the whole loop
RECURSIVE SuccessCount(_, _)
SuccessCount(cogs, bin_labels) ==
    IF cogs = <<>> THEN 0
    ELSE (IF process_cog(cogs[1], bin_labels, <<"a", "a">>, 0) # <<>> THEN 1 ELSE 0)
         + SuccessCount(Tail(cogs), bin_labels)

\* csv.DictWriter.writerows: every value written with str()
CsvRow(entry) ==
    [chip_path |-> entry.chip_path, source_image |-> entry.source_image,
     ulx |-> IntToStr(entry.ulx), uly |-> IntToStr(entry.uly),
     width |-> IntToStr(entry.width), height |-> IntToStr(entry.height)]

save_partial_manifest(entries) == [k \in 1..Len(entries) |-> CsvRow(entries[k])]

\* f"chip_manifests/partial/task_{task_index:03d}.csv"
PartialBlobName(task_index) ==
    LET digits == IntToStr(task_index)
        padded == IF Len(digits) >= 3 THEN digits
                  ELSE [k \in 1..(3 - Len(digits)) |-> "0"] \o digits
    IN  <<"c", "h", "i", "p", "_", "m", "a", "n", "i", "f", "e", "s", "t", "s", "/", "p", "a", "r", "t", "i", "a", "l", "/", "t", "a", "s", "k", "_">> \o padded \o <<".", "c", "s", "v">>

TaskIndexes == 0..(MaxTasks - 1)

\* main() of task task_index from the listing to save_partial_manifest: its
\* shard, its counters at the end and the rows it saves (none when all_entries
\* is empty, or when it returned early on an empty shard).
TaskMain(blobs, task_count, task_index, stream) ==
    LET bin_labels == generate_bin_labels
        mine == my_cogs(list_cogs(blobs), task_index, task_count)
        all_entries == IF mine = <<>> THEN <<>>
                       ELSE ProcessShard(mine, bin_labels, stream, <<>>)
    IN  [my_cogs |-> mine,
         success_count |-> IF mine = <<>> THEN 0 ELSE SuccessCount(mine, bin_labels),
         chips |-> Len(all_entries),
         saved |-> save_partial_manifest(all_entries)]

\* TaskMain for each bucket content, task count, task and token stream
\* (tabulated once: it reads no state).
TaskOutput ==
    [blobs \in Corpora |->
        [task_count \in 1..MaxTasks |->
            [task_index \in 0..(task_count - 1) |->
                [stream \in TokenStreams |->
                    TaskMain(blobs, task_count, task_index, stream)]]]]

\* No merge script is between its download and its upload.  The merge is a
\* batch step run between job executions: the model does not interleave the
\* job's tasks with a merge in progress.
MergeIdle == mergePc \in {"none", "complete", "crashed"}

\* The job is executed with CLOUD_RUN_TASK_COUNT = task_count; its tasks then
\* run (and may be retried) in any order.
StartExecution(task_count) ==
    /\ MergeIdle
    /\ taskCount' = task_count
    /\ tasksDone' = {}
    /\ uploaded' = {}
    /\ taskSummary' = <<>>
    /\ retried' = {}
    /\ mergeFresh' = FALSE
    /\ UNCHANGED <<sourceBlobs, partials, localFiles, localOutput, finalManifest, mergePc>>
    /\ UNCHANGED gridVars
    /\ UNCHANGED readVars
    /\ UNCHANGED toolVars

\* main() of task task_index, start to return
TaskMainRuns(task_index) ==
    /\ MergeIdle
    /\ taskCount > 0
    /\ task_index < taskCount
    /\ \E stream \in TokenStreams :
         LET run == TaskOutput[sourceBlobs][taskCount][task_index][stream]
         IN  /\ IF run.saved # <<>>
                THEN /\ partials' = [i \in DOMAIN partials \cup {task_index} |->
                                       IF i = task_index THEN run.saved ELSE partials[i]]
                     /\ uploaded' = uploaded \cup {task_index}
                ELSE UNCHANGED <<partials, uploaded>>
             /\ taskSummary' = [i \in DOMAIN taskSummary \cup {task_index} |->
                                  IF i = task_index
                                  THEN [my_cogs |-> run.my_cogs,
                                        success_count |-> run.success_count,
                                        chips |-> run.chips]
                                  ELSE taskSummary[i]]
    /\ tasksDone' = tasksDone \cup {task_index}
    /\ mergeFresh' = FALSE
    /\ UNCHANGED <<sourceBlobs, taskCount, localFiles, localOutput, finalManifest, mergePc>>
    /\ UNCHANGED gridVars
    /\ UNCHANGED readVars
    /\ UNCHANGED toolVars

\* Task task_index of the execution runs for the first time.
RunTask(task_index) ==
    /\ task_index \notin tasksDone
    /\ TaskMainRuns(task_index)
    /\ UNCHANGED retried

\* Cloud Run starts task task_index again: with the same index, task count and
\* listing.  A task killed before its upload has left nothing, so the run that
\* is repeated here is one that got to its end.
RetryTask(task_index) ==
    /\ task_index \in tasksDone
    /\ TaskMainRuns(task_index)
    /\ retried' = retried \cup {task_index}

(***************************************************************************)
(* merge_chip_manifest.py                                                  *)
(***************************************************************************)
\* every *.csv blob under chip_manifests/partial/, in listing (name) order
download_partial_manifests ==
    LET present == DOMAIN partials
        names == SortedStrs({ PartialBlobName(i) : i \in present })
        csv_names == SelectSeq(names, LAMBDA n : EndsWith(n, <<".", "c", "s", "v">>))
    IN  [k \in 1..Len(csv_names) |->
            partials[CHOOSE i \in present : PartialBlobName(i) = csv_names[k]]]

\* A Python value with its type
StrValue(s) == [type |-> "str", val |-> s]

IntValue(n) == [type |-> "int", val |-> n]

\* The sort key without int(): ulx and uly stay text
SortKeyText(r) == <<StrValue(r.source_image), StrValue(r.ulx), StrValue(r.uly)>>

\* key=lambda r: (r['source_image'], int(r['ulx']), int(r['uly']))
SortKey(r) ==
    <<StrValue(r.source_image), IntValue(StrToInt(r.ulx)), IntValue(StrToInt(r.uly))>>

\* a < b for two values of one type: int by value, str by code points
ValueLess(a, b) == IF a.type = "int" THEN a.val < b.val ELSE StrLess(a.val, b.val)

\* k1 < k2 for two key tuples: decided by the first component that differs
KeyLess(k1, k2) ==
    IF k1[1] # k2[1] THEN ValueLess(k1[1], k2[1])
    ELSE IF k1[2] # k2[2] THEN ValueLess(k1[2], k2[2])
    ELSE ValueLess(k1[3], k2[3])

\* The sequence with the elements of f, f a function on 1..n
AsSeq(f, n) == SubSeq(f, 1, n)

\* The place of each row in a stable ascending sort: after every row with a
\* smaller key and after the rows with an equal key that came before it.
SortPlaces(key, n) ==
    AsSeq([k \in 1..n |->
             1 + Cardinality({ j \in 1..n :
                     \/ KeyLess(key[j], key[k])
                     \/ (j < k /\ ~KeyLess(key[k], key[j])) })], n)

Placed(rows, place, n) == AsSeq([p \in 1..n |-> rows[CHOOSE k \in 1..n : place[k] = p]], n)

\* list.sort(key=...): the key of each row is computed once; the sort is stable.
SortByKey(rows) ==
    Placed(rows,
           SortPlaces(AsSeq([k \in 1..Len(rows) |-> SortKey(rows[k])], Len(rows)), Len(rows)),
           Len(rows))

\* for filepath in local_files: all_rows.extend(rows)
RECURSIVE ExtendAll(_)
ExtendAll(files) == IF files = <<>> THEN <<>> ELSE files[1] \o ExtendAll(Tail(files))

\* merge_manifests: the rows written to output_path and returned
merge_manifests(local_files) == SortByKey(ExtendAll(local_files))

\* main() of the merge script, in its three steps.
\* partial_files = download_partial_manifests(bucket_name)
MergeDownload ==
    /\ MergeIdle
    /\ localFiles' = download_partial_manifests
    /\ mergePc' = "downloaded"
    /\ mergeFresh' = TRUE
    /\ UNCHANGED <<sourceBlobs, taskSummary, retried, taskCount, tasksDone, uploaded, partials,
                   localOutput, finalManifest>>
    /\ UNCHANGED gridVars
    /\ UNCHANGED readVars
    /\ UNCHANGED toolVars

\* rows = merge_manifests(partial_files, local_output): sorts and writes the local CSV
MergeManifests ==
    /\ mergePc = "downloaded"
    /\ localOutput' = File(merge_manifests(localFiles))
    /\ mergePc' = "merged"
    /\ UNCHANGED <<sourceBlobs, taskSummary, retried, taskCount, tasksDone, uploaded, partials,
                   localFiles, finalManifest, mergeFresh>>
    /\ UNCHANGED gridVars
    /\ UNCHANGED readVars
    /\ UNCHANGED toolVars

\* print_statistics(rows); upload_manifest(...).  print_statistics divides by
\* the number of source images: with no row at all it raises before the upload.
MergeUpload ==
    /\ mergePc = "merged"
    /\ IF Rows(localOutput) = <<>>
       THEN mergePc' = "crashed" /\ UNCHANGED finalManifest
       ELSE mergePc' = "complete" /\ finalManifest' = localOutput
    /\ UNCHANGED <<sourceBlobs, taskSummary, retried, taskCount, tasksDone, uploaded, partials,
                   localFiles, localOutput, mergeFresh>>
    /\ UNCHANGED gridVars
    /\ UNCHANGED readVars
    /\ UNCHANGED toolVars

InitManifest ==
    /\ GridIdle
    /\ ReadIdle
    /\ ToolsIdle
    /\ sourceBlobs = SourceBlobs
    /\ taskSummary = <<>>
    /\ retried = {}
    /\ taskCount = 0
    /\ tasksDone = {}
    /\ uploaded = {}
    /\ partials = <<>>
    /\ localFiles = <<>>
    /\ localOutput = NoFile
    /\ finalManifest = NoFile
    /\ mergePc = "none"
    /\ mergeFresh = FALSE

NextManifest ==
    \/ \E task_count \in 1..MaxTasks : StartExecution(task_count)
    \/ \E task_index \in TaskIndexes : RunTask(task_index)
    \/ \E task_index \in TaskIndexes : RetryTask(task_index)
    \/ MergeDownload
    \/ MergeManifests
    \/ MergeUpload

SpecManifest == InitManifest /\ [][NextManifest]_vars

(***************************************************************************)
(* The merge alone, over every set of partial manifests the job's tasks    *)
(* can have left in the bucket.                                            *)
(***************************************************************************)
\* The non-empty CSVs task task_index can have uploaded, for any task count
PossiblePartial(task_index) ==
    { TaskOutput[SourceBlobs][task_count][task_index][stream].saved :
        task_count \in (task_index + 1)..MaxTasks, stream \in TokenStreams } \ {<<>>}

PossiblePartials ==
    UNION { [present -> UNION { PossiblePartial(i) : i \in present }] :
            present \in SUBSET TaskIndexes }

InitMerge ==
    /\ GridIdle
    /\ ReadIdle
    /\ ToolsIdle
    /\ sourceBlobs = SourceBlobs
    /\ taskSummary = <<>>
    /\ retried = {}
    /\ taskCount = 0
    /\ tasksDone = {}
    /\ uploaded = {}
    /\ partials \in { f \in PossiblePartials : \A i \in DOMAIN f : f[i] \in PossiblePartial(i) }
    /\ localFiles = <<>>
    /\ localOutput = NoFile
    /\ finalManifest = NoFile
    /\ mergePc = "none"
    /\ mergeFresh = FALSE

(***************************************************************************)
(* The manifest job alone.  Between two executions images are uploaded to  *)
(* or deleted from the source prefix; the partial manifests stay.          *)
(***************************************************************************)
ExecutionOver == taskCount = 0 \/ tasksDone = 0..(taskCount - 1)

\* cog appears under, or disappears from, the source prefix between executions
ChangeSource(cog) ==
    /\ MergeIdle
    /\ ExecutionOver
    /\ sourceBlobs' = IF cog \in sourceBlobs THEN sourceBlobs \ {cog}
                      ELSE sourceBlobs \cup {cog}
    /\ taskCount' = 0
    /\ tasksDone' = {}
    /\ uploaded' = {}
    /\ taskSummary' = <<>>
    /\ retried' = {}
    /\ mergeFresh' = FALSE
    /\ UNCHANGED <<partials, localFiles, localOutput, finalManifest, mergePc>>
    /\ UNCHANGED gridVars
    /\ UNCHANGED readVars
    /\ UNCHANGED toolVars

InitJob ==
    /\ GridIdle
    /\ ReadIdle
    /\ ToolsIdle
    /\ sourceBlobs \in Corpora
    /\ taskSummary = <<>>
    /\ retried = {}
    /\ taskCount = 0
    /\ tasksDone = {}
    /\ uploaded = {}
    /\ partials = <<>>
    /\ localFiles = <<>>
    /\ localOutput = NoFile
    /\ finalManifest = NoFile
    /\ mergePc = "none"
    /\ mergeFresh = FALSE

NextJob ==
    \/ \E task_count \in 1..MaxTasks : StartExecution(task_count)
    \/ \E task_index \in TaskIndexes : RunTask(task_index)
    \/ \E cog \in Cogs : ChangeSource(cog)

SpecJob == InitJob /\ [][NextJob]_vars

(***************************************************************************)
(* The manifest job over a fixed source bucket, with tasks started again.  *)
(***************************************************************************)
NextRetry ==
    \/ \E task_count \in 1..MaxTasks : StartExecution(task_count)
    \/ \E task_index \in TaskIndexes : RunTask(task_index)
    \/ \E task_index \in TaskIndexes : RetryTask(task_index)

SpecRetry == InitManifest /\ [][NextRetry]_vars

NextMerge == MergeDownload \/ MergeManifests \/ MergeUpload

SpecMerge == InitMerge /\ [][NextMerge]_vars

(***************************************************************************)
(* extract_chips_from_manifest.py: read_manifest over a merged manifest    *)
(***************************************************************************)
\* `if v:` for v None or an int
Truthy(v) == v.type # "none" /\ v.val # 0

\* chip_bin = row['chip_path'].split('/')[0]
\* if bin_name is None or chip_bin == bin_name:
RowMatches(row, bin_name) ==
    bin_name.type = "none" \/ SplitFirst(row.chip_path, "/") = bin_name.val

\* `if count and len(chips) >= count: break`, tested right after row k was
\* appended; `matching` are the places of the rows that pass the filter
ReadBreaksAfter(matching, k, count) ==
    Truthy(count) /\ Cardinality({ j \in matching : j <= k }) >= count.val

\* read_manifest: the loop over the rows, written without recursion.  A row
\* is appended when it passes the filter and the loop did not break after an
\* earlier appended row; chips holds the appended rows in the file's order.
read_manifest(rows, bin_name, count) ==
    LET matching == { k \in 1..Len(rows) : RowMatches(rows[k], bin_name) }
        appended == { k \in matching :
                        \A j \in matching : j < k => ~ReadBreaksAfter(matching, j, count) }
        n == Cardinality(appended)
    IN  AsSeq([p \in 1..n |->
                 rows[CHOOSE k \in appended : Cardinality({ j \in appended : j <= k }) = p]], n)

\* read_manifest(args.manifest, args.bin, args.count) on the local manifest
ReadManifest(bin_name, count) ==
    /\ ReadIdle
    /\ localOutput # NoFile
    /\ readArgs' = [bin_name |-> bin_name, count |-> count]
    /\ readChips' = read_manifest(Rows(localOutput), bin_name, count)
    /\ UNCHANGED gridVars
    /\ UNCHANGED jobVars
    /\ UNCHANGED toolVars

\* The manifests the extraction is run on: the merge of one task's partial
ReadableManifests == { merge_manifests(<<rows>>) : rows \in PossiblePartial(0) }

\* --bin: left out, a bin of the manifest, or a bin with no chip
BinChoices(rows) ==
    {NoneValue} \cup { StrValue(SplitFirst(rows[k].chip_path, "/")) : k \in 1..Len(rows) }
    \cup {StrValue(<<"z", "z">>)}

\* --count: left out, or 0..MaxCount
CountChoices == {NoneValue} \cup { IntValue(n) : n \in 0..MaxCount }

InitRead ==
    /\ GridIdle
    /\ ReadIdle
    /\ ToolsIdle
    /\ sourceBlobs = SourceBlobs
    /\ taskSummary = <<>>
    /\ retried = {}
    /\ taskCount = 0
    /\ tasksDone = {}
    /\ uploaded = {}
    /\ partials = <<>>
    /\ localFiles = <<>>
    /\ localOutput \in { File(rows) : rows \in ReadableManifests }
    /\ finalManifest = localOutput
    /\ mergePc = "complete"
    /\ mergeFresh = FALSE

NextRead ==
    \E bin_name \in BinChoices(Rows(localOutput)), count \in CountChoices :
        ReadManifest(bin_name, count)

SpecRead == InitRead /\ [][NextRead]_vars

(***************************************************************************)
(* generate_chip_manifest.py: its own generate_bin_labels, hash_to_bin     *)
(* and process_single_image                                                *)
(***************************************************************************)
LocalNumBinLetters == 25

\* letters = [chr(65 + i) for i in range(25)]; first + second for each pair
local_generate_bin_labels ==
    LET letters == [i \in 1..LocalNumBinLetters |-> UpperCase[i]]
    IN  [k \in 1..(Len(letters) * Len(letters)) |->
            <<letters[((k - 1) \div Len(letters)) + 1]>>
            \o <<letters[((k - 1) % Len(letters)) + 1]>>]

\* A hash that reads the first eight hex digits of the digest only.
LocalHashToBinShort(value, num_bins) ==
    HexMod(SubSeq(MD5HexDigest[Join(value)], 1, 8), num_bins)

\* hash_value = int(hashlib.md5(value.encode()).hexdigest(), 16); hash_value % num_bins
local_hash_to_bin(value, num_bins) ==
    LET hash_value == MD5HexDigest[Join(value)]
    IN  HexMod(hash_value, num_bins)

\* process_single_image: the entries of the image at image_path, read as
\* image_name; the n-th token drawn is DrawnToken(stream, n)
process_single_image(image_path, image_name, bin_labels, stream) ==
    LET size == RasterSize[image_path]
    IN  IF size = Unreadable THEN <<>>
        ELSE LET chip_coords == compute_chip_grid(size[1], size[2], DefaultChipSize,
                                                  DefaultGridX, DefaultGridY, DefaultMargin)
             IN  [k \in 1..Len(chip_coords) |->
                    LET idx == k - 1
                        bin_key == image_name \o <<"_">> \o IntToStr(idx)
                        bin_idx == local_hash_to_bin(bin_key, Len(bin_labels))
                        bin_label == Lower(bin_labels[bin_idx + 1])
                    IN  [chip_path |-> ChipPath(bin_label, DrawnToken(stream, idx), image_name),
                         source_image |-> image_name,
                         ulx |-> chip_coords[k][1], uly |-> chip_coords[k][2],
                         width |-> DefaultChipSize, height |-> DefaultChipSize,
                         bin |-> bin_label]]

(***************************************************************************)
(* chip_extractor.py: ChipCoords and generate_random_chip_coords           *)
(***************************************************************************)
ChipCoords(ul_x, ul_y, width, height) ==
    [ul_x |-> ul_x, ul_y |-> ul_y, width |-> width, height |-> height]

lr_x(self) == self.ul_x + self.width

lr_y(self) == self.ul_y + self.height

\* A validity test that lets a chip touch the left and top edges.
IsValidTouching(self, image_width, image_height) ==
    /\ self.ul_x >= 0
    /\ self.ul_y >= 0
    /\ lr_x(self) < image_width
    /\ lr_y(self) < image_height

is_valid(self, image_width, image_height) ==
    /\ self.ul_x > 0
    /\ self.ul_y > 0
    /\ lr_x(self) < image_width
    /\ lr_y(self) < image_height

\* A size check that lets through the chip that fills the image between its
\* margins.
ChipTooLargeStrict(image_width, image_height, chip_width, chip_height, margin) ==
    \/ chip_width > image_width - (2 * margin)
    \/ chip_height > image_height - (2 * margin)

\* The two `raise ValueError` tests
ChipTooLarge(image_width, image_height, chip_width, chip_height, margin) ==
    \/ chip_width >= image_width - (2 * margin)
    \/ chip_height >= image_height - (2 * margin)

\* An upper bound of the corner that forgets the margin.
MaxUlNoMargin(dimension, chip, margin) == dimension - chip

\* max_ul_x, max_ul_y
MaxUl(dimension, chip, margin) == dimension - chip - margin

\* random.randint(a, b): the values it can return (it raises ValueError for
\* an empty range)
randint(a, b) == a..b

\* How a call can end
Raise(exception) == [raised |-> exception, returned |-> NoneValue]

Return(value) == [raised |-> "none", returned |-> value]

\* The ends generate_random_chip_coords can come to, one for each pair of
\* random draws
generate_random_chip_coords(image_width, image_height, chip_width, chip_height, margin) ==
    IF ChipTooLarge(image_width, image_height, chip_width, chip_height, margin)
    THEN {Raise("ValueError")}
    ELSE LET max_ul_x == MaxUl(image_width, chip_width, margin)
             max_ul_y == MaxUl(image_height, chip_height, margin)
         IN  IF randint(margin, max_ul_x) = {} \/ randint(margin, max_ul_y) = {}
             THEN {Raise("ValueError")}
             ELSE { LET coords == ChipCoords(ul_x, ul_y, chip_width, chip_height)
                    IN  IF is_valid(coords, image_width, image_height)
                        THEN Return(coords)
                        ELSE Raise("AssertionError") :
                    ul_x \in randint(margin, max_ul_x), ul_y \in randint(margin, max_ul_y) }

\* The arguments tried
CoordArgs ==
    [image_width : 1..MaxDim, image_height : 1..MaxDim,
     chip_width : 1..MaxChip, chip_height : 1..MaxChip, margin : 0..MaxEdge]

\* Everything but the variables of chip_extractor.py
exceptCoord == <<pipelineVars, cellVars, convVars, batchVars, threadVars, cocoVars>>

\* One call of generate_random_chip_coords, from its first line to its return
\* or its exception
CallGenerateRandomChipCoords ==
    /\ CoordIdle
    /\ \E args \in CoordArgs :
          /\ coordCall' = args
          /\ coordResult' \in generate_random_chip_coords(args.image_width, args.image_height,
                                                          args.chip_width, args.chip_height, args.margin)
    /\ UNCHANGED <<validCall, validResult>>
    /\ UNCHANGED exceptCoord

\* The chips is_valid is asked about: corners on and off the edges
ValidArgs ==
    [coords : { ChipCoords(ul_x, ul_y, width, height) :
                    ul_x \in 0..MaxDim, ul_y \in 0..MaxDim,
                    width \in 1..MaxChip, height \in 1..MaxChip },
     image_width : 1..MaxDim, image_height : 1..MaxDim]

\* One call of coords.is_valid(image_width, image_height)
CallIsValid ==
    /\ CoordIdle
    /\ \E args \in ValidArgs :
          /\ validCall' = args
          /\ validResult' = is_valid(args.coords, args.image_width, args.image_height)
    /\ UNCHANGED <<coordCall, coordResult>>
    /\ UNCHANGED exceptCoord

InitCoords == GridIdle /\ JobIdle /\ ReadIdle /\ ToolsIdle

NextCoords == CallGenerateRandomChipCoords \/ CallIsValid

SpecCoords == InitCoords /\ [][NextCoords]_vars

(***************************************************************************)
(* cloudrun/chip_extraction_job.py: generate_non_overlapping_grid_coords   *)
(***************************************************************************)
Max(a, b) == IF a >= b THEN a ELSE b

Min(a, b) == IF a <= b THEN a ELSE b

\* int(np.ceil(np.sqrt(n)))
CeilSqrt(n) == CHOOSE g \in 0..n : g * g >= n /\ (g = 0 \/ (g - 1) * (g - 1) < n)

\* int(np.ceil(a / b)), b > 0
CeilDiv(a, b) == (a + b - 1) \div b

CellGridX(num_chips) ==
    IF num_chips = 4 THEN 2
    ELSE IF num_chips <= 2 THEN num_chips
    ELSE CeilSqrt(num_chips)

CellGridY(num_chips) ==
    IF num_chips = 4 THEN 2
    ELSE IF num_chips <= 2 THEN 1
    ELSE CeilDiv(num_chips, CellGridX(num_chips))

\* ul_x, ul_y: the middle of the cell moved by the offset, held between the
\* margins
CellUl(cell_ul, cell_size, offset, dimension, chip_size, margin) ==
    Max(margin, Min(cell_ul + (cell_size \div 2) + offset, dimension - chip_size - margin))

\* The corners the cell (row, col) can get, one for each pair of offsets
CellCorners(row, col, cell_width, cell_height, image_width, image_height, chip_size, margin) ==
    LET cell_ul_x == margin + (col * cell_width)
        cell_ul_y == margin + (row * cell_height)
        offset_range_x == cell_width \div 4
        offset_range_y == cell_height \div 4
    IN  { << CellUl(cell_ul_x, cell_width, offset_x, image_width, chip_size, margin),
             CellUl(cell_ul_y, cell_height, offset_y, image_height, chip_size, margin) >> :
          offset_x \in randint(-offset_range_x, offset_range_x),
          offset_y \in randint(-offset_range_y, offset_range_y) }

\* The two loops from chip chip_idx on: the lists `coords` can grow into.
\* The cells are visited row by row; `break` leaves the row once num_chips
\* corners are there, and every later row at its first cell.
RECURSIVE CellLoop(_, _, _, _, _, _, _, _, _, _)
CellLoop(chip_idx, coords, grid_x, cell_width, cell_height, image_width, image_height, chip_size, num_chips, margin) ==
    IF chip_idx >= num_chips THEN {coords}
    ELSE LET row == chip_idx \div grid_x
             col == chip_idx % grid_x
         IN  UNION { CellLoop(chip_idx + 1, Append(coords, corner), grid_x, cell_width, cell_height,
                              image_width, image_height, chip_size, num_chips, margin) :
                     corner \in CellCorners(row, col, cell_width, cell_height,
                                            image_width, image_height, chip_size, margin) }

\* The ends generate_non_overlapping_grid_coords can come to
generate_non_overlapping_grid_coords(image_width, image_height, chip_size, num_chips, margin) ==
    IF chip_size >= image_width - (2 * margin) \/ chip_size >= image_height - (2 * margin)
    THEN {Raise("ValueError")}
    ELSE LET usable_width == image_width - chip_size - (2 * margin)
             usable_height == image_height - chip_size - (2 * margin)
             grid_x == CellGridX(num_chips)
             grid_y == CellGridY(num_chips)
             cell_width == usable_width \div grid_x
             cell_height == usable_height \div grid_y
         IN  { Return(coords) :
               coords \in CellLoop(0, <<>>, grid_x, cell_width, cell_height,
                                   image_width, image_height, chip_size, num_chips, margin) }

\* The arguments tried
CellArgs ==
    [image_width : 1..MaxDim, image_height : 1..MaxDim, chip_size : 1..MaxChip,
     num_chips : 1..MaxNumChips, margin : 0..MaxMargin]

\* Everything but the variables of generate_non_overlapping_grid_coords
exceptCell == <<pipelineVars, coordVars, convVars, batchVars, threadVars, cocoVars>>

\* One call of generate_non_overlapping_grid_coords
CallGenerateNonOverlappingGridCoords ==
    /\ CellIdle
    /\ \E args \in CellArgs :
          /\ cellCall' = args
          /\ cellResult' \in generate_non_overlapping_grid_coords(
                                 args.image_width, args.image_height, args.chip_size,
                                 args.num_chips, args.margin)
    /\ UNCHANGED exceptCell

InitCells == GridIdle /\ JobIdle /\ ReadIdle /\ ToolsIdle

NextCells == CallGenerateNonOverlappingGridCoords

SpecCells == InitCells /\ [][NextCells]_vars

(***************************************************************************)
(* cloudrun/convert_cog_job.py: the tasks of one job execution, sharing    *)
(* the bucket.  A step of a task is one exchange with the bucket.          *)
(***************************************************************************)
SourcePrefix == <<"s", "o", "u", "r", "c", "e", "-", "j", "p", "g", "/">>

CogPrefix == <<"c", "o", "g", "s", "/">>

\* bucket.list_blobs(prefix=source_prefix): the folder object and four images
SourceJpgBlobs ==
    { SourcePrefix,
      SourcePrefix \o <<"c", "a", "p", "-", "1", ".", "j", "p", "g">>,
      SourcePrefix \o <<"c", "a", "p", "-", "2", ".", "j", "p", "g">>,
      SourcePrefix \o <<"c", "a", "p", "-", "3", ".", "j", "p", "g">>,
      SourcePrefix \o <<"c", "a", "p", "-", "4", ".", "j", "p", "g">> }

\* cog_path = f"{cog_prefix}{source_name}.tif"
CogPath(source_file) == CogPrefix \o PathStem(source_file) \o <<".", "t", "i", "f">>

\* What cogs/ can hold when the job starts: nothing but the folder object,
\* or the COG of an earlier conversion as well
CogsAtStart ==
    { {CogPrefix},
      {CogPrefix, CogPath(SourcePrefix \o <<"c", "a", "p", "-", "2", ".", "j", "p", "g">>)} }

\* The members of a list that pass a test, in the list's order
RECURSIVE SelectInOrder(_, _)
SelectInOrder(list, keep) ==
    IF list = <<>> THEN <<>>
    ELSE (IF Head(list) \in keep THEN <<Head(list)>> ELSE <<>>) \o SelectInOrder(Tail(list), keep)

\* list_files_to_process: the source files, in the order the bucket lists
\* them (by name), whose stem is the stem of no object under cog_prefix
list_files_to_process(source_blobs, cog_blobs) ==
    LET source_files == SortedStrs({ name \in source_blobs : ~EndsWith(name, <<"/">>) })
        existing_cogs == { PathStem(name) : name \in { b \in cog_blobs : ~EndsWith(b, <<"/">>) } }
    IN  SelectInOrder(source_files,
                      { f \in source_blobs : PathStem(f) \notin existing_cogs })

ConvTaskIndexes == 0..(convTaskCount - 1)

\* Everything but the variables of the conversion job
exceptConv == <<pipelineVars, coordVars, cellVars, batchVars, threadVars, cocoVars>>

\* The job is executed with task_count tasks
StartConvertJob(task_count, cogs) ==
    /\ ConvIdle
    /\ convTaskCount' = task_count
    /\ cogBlobs' = cogs
    /\ convTasks' = [task_index \in 0..(task_count - 1) |->
                       [pc |-> "start", my_files |-> <<>>, converted |-> {}, failed |-> {}]]
    /\ convAtStart' = { f \in SourceJpgBlobs : ~EndsWith(f, <<"/">>) /\ CogPath(f) \notin cogs }
    /\ UNCHANGED exceptConv

\* main() of task task_index up to its loop: it lists the bucket and keeps
\* the files at its places of the list; with none to process it returns
ConvListFiles(task_index) ==
    /\ convTaskCount > 0
    /\ task_index \in ConvTaskIndexes
    /\ convTasks[task_index].pc = "start"
    /\ LET all_files == list_files_to_process(SourceJpgBlobs, cogBlobs)
           my_files == ShardFrom(all_files, 0, task_index, convTaskCount)
       IN  convTasks' = [convTasks EXCEPT
                           ![task_index].pc = IF my_files = <<>> THEN "done" ELSE "converting",
                           ![task_index].my_files = my_files]
    /\ UNCHANGED <<convTaskCount, cogBlobs, convAtStart>>
    /\ UNCHANGED exceptConv

\* One turn of the loop of main(): convert_file_to_cog uploads the COG, or
\* it raises (rio failed) and the file is noted as failed
ConvConvertFile(task_index) ==
    /\ convTaskCount > 0
    /\ task_index \in ConvTaskIndexes
    /\ convTasks[task_index].pc = "converting"
    /\ LET source_file == Head(convTasks[task_index].my_files)
           rest == Tail(convTasks[task_index].my_files)
           pc == IF rest = <<>> THEN "done" ELSE "converting"
       IN  \E ok \in BOOLEAN :
             IF ok
             THEN /\ cogBlobs' = cogBlobs \cup {CogPath(source_file)}
                  /\ convTasks' = [convTasks EXCEPT
                                     ![task_index].pc = pc,
                                     ![task_index].my_files = rest,
                                     ![task_index].converted = @ \cup {source_file}]
             ELSE /\ UNCHANGED cogBlobs
                  /\ convTasks' = [convTasks EXCEPT
                                     ![task_index].pc = pc,
                                     ![task_index].my_files = rest,
                                     ![task_index].failed = @ \cup {source_file}]
    /\ UNCHANGED <<convTaskCount, convAtStart>>
    /\ UNCHANGED exceptConv

InitConvert == GridIdle /\ JobIdle /\ ReadIdle /\ ToolsIdle

NextConvert ==
    \/ \E task_count \in 1..MaxTasks, cogs \in CogsAtStart : StartConvertJob(task_count, cogs)
    \/ \E task_index \in TaskIndexes : ConvListFiles(task_index)
    \/ \E task_index \in TaskIndexes : ConvConvertFile(task_index)

SpecConvert == InitConvert /\ [][NextConvert]_vars

(***************************************************************************)
(* batch_extract_chips.py: process_cog_batch, one process per run          *)
(***************************************************************************)
NumSubdirs == 100

BatchChipSize == 1024

\* list_cogs_from_gcs: the names ending in .tif, in the order the bucket
\* lists them (by name)
list_cogs_from_gcs(blobs) ==
    SortedStrs({ b \in blobs : EndsWith(b, <<".", "t", "i", "f">>) })

\* The bucket of the batch extraction: the folder object and two COGs
BatchBlobs == {<<"c", "o", "g", "s", "/">>, CogTiled, CogWide}

\* f"{n:02d}"
ZeroPad2(n) == IF n < 10 THEN <<"0">> \o IntToStr(n) ELSE IntToStr(n)

\* hash() of a str is salted anew in every process (PYTHONHASHSEED is not
\* set by the script): a process's hash is any function of the names.  The
\* model explores the values 0..MaxHash.
ProcessHashes == [{ PathStem(b) : b \in {CogTiled, CogWide} } -> 0..MaxHash]

\* get_chip_subdirectory: output_dir / f"{hash(image_name) % 100:02d}"
get_chip_subdirectory(process_hash, image_name) ==
    ZeroPad2(process_hash[image_name] % NumSubdirs)

StartsWith(str, prefix) ==
    Len(str) >= Len(prefix) /\ SubSeq(str, 1, Len(prefix)) = prefix

\* chip_subdir.glob(f"{cog_name}_*.png")
ExistingChips(dir, chip_subdir, cog_name) ==
    { f \in dir : /\ f.subdir = chip_subdir
                  /\ Len(f.name) >= Len(cog_name) + 5
                  /\ StartsWith(f.name, cog_name \o <<"_">>)
                  /\ EndsWith(f.name, <<".", "p", "n", "g">>) }

\* f"{image_name}_{coords.ul_x}_{coords.ul_y}_{coords.width}_{coords.height}{ext}"
ChipFileName(image_name, coords) ==
    image_name \o <<"_">> \o IntToStr(coords.ul_x) \o <<"_">> \o IntToStr(coords.ul_y)
    \o <<"_">> \o IntToStr(coords.width) \o <<"_">> \o IntToStr(coords.height)
    \o <<".", "p", "n", "g">>

\* The corners generate_random_chip_coords draws for the chip of an image;
\* the model explores two of them
DrawnCorners == { ChipCoords(1, 1, BatchChipSize, BatchChipSize),
                  ChipCoords(2048, 77, BatchChipSize, BatchChipSize) }

NoCounts == [success_count |-> 0, skip_count |-> 0, fail_count |-> 0]

\* The loop of process_cog_batch from cog k on: the ends it can come to, one
\* for each choice of random corners and of downloads or extractions that
\* raise
RECURSIVE BatchLoop(_, _, _, _, _)
BatchLoop(cog_files, k, process_hash, dir, counts) ==
    IF k > Len(cog_files) THEN {[dir |-> dir, counts |-> counts]}
    ELSE LET cog_name == PathStem(cog_files[k])
             chip_subdir == get_chip_subdirectory(process_hash, cog_name)
         IN  IF ExistingChips(dir, chip_subdir, cog_name) # {}
             THEN BatchLoop(cog_files, k + 1, process_hash, dir,
                            [counts EXCEPT !.skip_count = @ + 1])
             ELSE BatchLoop(cog_files, k + 1, process_hash, dir,
                            [counts EXCEPT !.fail_count = @ + 1])
                  \cup UNION { BatchLoop(cog_files, k + 1, process_hash,
                                         dir \cup {[subdir |-> chip_subdir,
                                                    name |-> ChipFileName(cog_name, coords)]},
                                         [counts EXCEPT !.success_count = @ + 1]) :
                               coords \in DrawnCorners }

\* process_cog_batch(bucket, 'cogs/', output_dir) with the default range
process_cog_batch(blobs, process_hash, dir) ==
    BatchLoop(list_cogs_from_gcs(blobs), 1, process_hash, dir, NoCounts)

\* Everything but the variables of batch_extract_chips.py
exceptBatch == <<pipelineVars, coordVars, cellVars, convVars, threadVars, cocoVars>>

\* One run of the script, in a process of its own, from start to summary
RunProcessCogBatch ==
    /\ Len(batchReports) < MaxRuns
    /\ \E process_hash \in ProcessHashes :
         \E end \in process_cog_batch(BatchBlobs, process_hash, outputDir) :
            /\ outputDir' = end.dir
            /\ batchReports' = Append(batchReports, end.counts)
            /\ batchDirs' = Append(batchDirs, end.dir)
    /\ UNCHANGED exceptBatch

InitBatch == GridIdle /\ JobIdle /\ ReadIdle /\ ToolsIdle

NextBatch == RunProcessCogBatch

SpecBatch == InitBatch /\ [][NextBatch]_vars

(***************************************************************************)
(* convert_cogs_threaded.py: main() and the convert_one_file calls its     *)
(* pool runs.  A step of a call is one exchange with the bucket, one       *)
(* operation on progress_lock, or one read or write of a stats counter     *)
(* (`stats[k] += 1` reads the counter and then writes it).                 *)
(***************************************************************************)
\* source_files: the names ending in .jpg
ThreadSourceFiles == { name \in SourceJpgBlobs : EndsWith(name, <<".", "j", "p", "g">>) }

\* str.replace(old, new) for a name that holds `old` once at most, at its end
ReplaceSuffix(str, old, new) ==
    IF EndsWith(str, old) THEN SubSeq(str, 1, Len(str) - Len(old)) \o new ELSE str

\* dest_file = f"{COG_PREFIX}{filename.replace('.jpg', '.tif')}"
DestFile(source_file) ==
    CogPrefix \o ReplaceSuffix(PathName(source_file), <<".", "j", "p", "g">>, <<".", "t", "i", "f">>)

\* A lock that is given to whoever asks.
AcquirableAlways(lock) == TRUE

\* `with progress_lock:` can be entered
Acquirable(lock) == lock = Unlocked

\* The counters each branch of convert_one_file increments, in its order
CountersOf(outcome) ==
    IF outcome = "skipped" THEN <<"skipped", "processed">>
    ELSE IF outcome = "failed" THEN <<"failed", "processed">>
    ELSE <<"processed">>

\* The calls a worker thread is running
Running == { f \in DOMAIN futures : futures[f].pc \notin {"queued", "done"} }

\* Everything but the variables of convert_cogs_threaded.py
exceptThread == <<pipelineVars, coordVars, cellVars, convVars, batchVars, cocoVars>>

\* main() up to the submission of the futures
ThreadMainStart(workers, cogs) ==
    /\ ThreadIdle
    /\ num_workers' = workers
    /\ threadCogs' = cogs
    /\ stats' = [stats EXCEPT !.total = Cardinality(ThreadSourceFiles)]
    /\ futures' = [f \in ThreadSourceFiles |->
                     [pc |-> "queued", outcome |-> "none", todo |-> <<>>, read |-> 0]]
    /\ UNCHANGED progress_lock
    /\ UNCHANGED exceptThread

\* A free worker takes a call from the queue: file_exists_in_gcs
ThreadCheckExists(f) ==
    /\ num_workers > 0
    /\ f \in DOMAIN futures
    /\ futures[f].pc = "queued"
    /\ Cardinality(Running) < num_workers
    /\ futures' = [futures EXCEPT ![f] =
                     IF DestFile(f) \in threadCogs
                     THEN [@ EXCEPT !.pc = "lock", !.outcome = "skipped", !.todo = CountersOf("skipped")]
                     ELSE [@ EXCEPT !.pc = "convert"]]
    /\ UNCHANGED <<num_workers, stats, progress_lock, threadCogs>>
    /\ UNCHANGED exceptThread

\* Download, rio cogeo and upload: the COG is there, or one of them raised
ThreadConvert(f) ==
    /\ f \in DOMAIN futures
    /\ futures[f].pc = "convert"
    /\ \E ok \in BOOLEAN :
         IF ok
         THEN /\ threadCogs' = threadCogs \cup {DestFile(f)}
              /\ futures' = [futures EXCEPT ![f] =
                               [@ EXCEPT !.pc = "lock", !.outcome = "converted",
                                         !.todo = CountersOf("converted")]]
         ELSE /\ UNCHANGED threadCogs
              /\ futures' = [futures EXCEPT ![f] =
                               [@ EXCEPT !.pc = "lock", !.outcome = "failed",
                                         !.todo = CountersOf("failed")]]
    /\ UNCHANGED <<num_workers, stats, progress_lock>>
    /\ UNCHANGED exceptThread

\* with progress_lock: (entry)
ThreadAcquire(f) ==
    /\ f \in DOMAIN futures
    /\ futures[f].pc = "lock"
    /\ Acquirable(progress_lock)
    /\ progress_lock' = <<f>>
    /\ futures' = [futures EXCEPT ![f].pc = "read"]
    /\ UNCHANGED <<num_workers, stats, threadCogs>>
    /\ UNCHANGED exceptThread

\* stats[k] += 1, first half: the counter is read
ThreadReadCounter(f) ==
    /\ f \in DOMAIN futures
    /\ futures[f].pc = "read"
    /\ futures' = [futures EXCEPT ![f].pc = "write",
                                  ![f].read = stats[Head(futures[f].todo)]]
    /\ UNCHANGED <<num_workers, stats, progress_lock, threadCogs>>
    /\ UNCHANGED exceptThread

\* stats[k] += 1, second half: the sum is stored
ThreadWriteCounter(f) ==
    /\ f \in DOMAIN futures
    /\ futures[f].pc = "write"
    /\ stats' = [stats EXCEPT ![Head(futures[f].todo)] = futures[f].read + 1]
    /\ futures' = [futures EXCEPT ![f].todo = Tail(@),
                                  ![f].pc = IF Tail(futures[f].todo) = <<>> THEN "unlock" ELSE "read"]
    /\ UNCHANGED <<num_workers, progress_lock, threadCogs>>
    /\ UNCHANGED exceptThread

\* The progress line is printed, the with block is left and the call returns
ThreadRelease(f) ==
    /\ f \in DOMAIN futures
    /\ futures[f].pc = "unlock"
    /\ progress_lock' = Unlocked
    /\ futures' = [futures EXCEPT ![f].pc = "done"]
    /\ UNCHANGED <<num_workers, stats, threadCogs>>
    /\ UNCHANGED exceptThread

InitThreads == GridIdle /\ JobIdle /\ ReadIdle /\ ToolsIdle

NextThreads ==
    \/ \E workers \in 1..MaxWorkers, cogs \in CogsAtStart : ThreadMainStart(workers, cogs)
    \/ \E f \in ThreadSourceFiles : ThreadCheckExists(f)
    \/ \E f \in ThreadSourceFiles : ThreadConvert(f)
    \/ \E f \in ThreadSourceFiles : ThreadAcquire(f)
    \/ \E f \in ThreadSourceFiles : ThreadReadCounter(f)
    \/ \E f \in ThreadSourceFiles : ThreadWriteCounter(f)
    \/ \E f \in ThreadSourceFiles : ThreadRelease(f)

SpecThreads == InitThreads /\ [][NextThreads]_vars

(***************************************************************************)
(* merge_coco_annotations.py: merge_coco_annotations                       *)
(***************************************************************************)
\* max() of a non-empty collection of numbers
MaxOf(S) == CHOOSE x \in S : \A y \in S : y <= x

\* An offset that is the largest id itself.
NextOffsetIsMax(ids) == MaxOf(ids)

\* max(x["id"] for x in merged[...]) + 1
NextOffset(ids) == MaxOf(ids) + 1

\* The ids of a list of images or annotations
IdsOf(list) == { list[k].id : k \in 1..Len(list) }

\* The loop over all_data from file i on.  image_id_map[old_img_id] raises
\* KeyError for an annotation of an image the file does not list.
RECURSIVE MergeFiles(_, _, _, _, _)
MergeFiles(all_data, i, merged, image_id_offset, annotation_id_offset) ==
    IF i > Len(all_data) THEN Return(merged)
    ELSE LET data == all_data[i]
             images == [k \in 1..Len(data.images) |->
                          [data.images[k] EXCEPT !.id = @ + image_id_offset]]
             image_id_map == [old_id \in IdsOf(data.images) |-> old_id + image_id_offset]
             annotations == [k \in 1..Len(data.annotations) |->
                               [data.annotations[k] EXCEPT
                                   !.id = @ + annotation_id_offset,
                                   !.image_id = image_id_map[@]]]
             merged_images == merged.images \o images
         IN  IF \E k \in 1..Len(data.annotations) :
                    data.annotations[k].image_id \notin DOMAIN image_id_map
             THEN Raise("KeyError")
             ELSE LET merged_annotations == merged.annotations \o annotations
                  IN  MergeFiles(all_data, i + 1,
                                 [images |-> merged_images, annotations |-> merged_annotations],
                                 IF data.images # <<>>
                                 THEN NextOffset(IdsOf(merged_images)) ELSE image_id_offset,
                                 IF data.annotations # <<>>
                                 THEN NextOffset(IdsOf(merged_annotations))
                                 ELSE annotation_id_offset)

\* merge_coco_annotations on the loaded files: what is saved to output_file
merge_coco_annotations(all_data) ==
    IF all_data = <<>> THEN Return(FALSE)
    ELSE MergeFiles(all_data, 1, [images |-> <<>>, annotations |-> <<>>], 0, 0)

\* The ids the annotators' exports use: non-negative, with a gap
CocoIds == {0, 2}

\* The lists of at most two distinct ids, in either order
IdLists == {<<>>} \cup { <<a>> : a \in CocoIds }
           \cup ({ <<a, b>> : a, b \in CocoIds } \ { <<a, a>> : a \in CocoIds })

\* The exports of the annotator at place `place` of the command line: images
\* with ids unique in the file (and a file_name no other file has),
\* annotations with ids unique in the file, each naming an image id
CocoExports(place) ==
    UNION { UNION { { [images |-> [k \in 1..Len(image_ids) |->
                                      [id |-> image_ids[k], file_name |-> <<place, image_ids[k]>>]],
                       annotations |-> [k \in 1..Len(ann_ids) |->
                                          [id |-> ann_ids[k], image_id |-> refs[k]]]] :
                      refs \in [1..Len(ann_ids) -> CocoIds] } :
                    ann_ids \in IdLists } :
            image_ids \in IdLists }

\* The command lines of n files
RECURSIVE CocoInputs(_)
CocoInputs(n) ==
    IF n = 0 THEN {<<>>}
    ELSE { Append(front, data) : front \in CocoInputs(n - 1), data \in CocoExports(n) }

\* Everything but the variables of merge_coco_annotations.py
exceptCoco == <<pipelineVars, coordVars, cellVars, convVars, batchVars, threadVars>>

\* One call of merge_coco_annotations, from the loading to the saving
MergeCocoAnnotations ==
    /\ CocoIdle
    /\ \E n \in 1..MaxCocoFiles :
         \E all_data \in CocoInputs(n) :
            /\ annotation_files' = all_data
            /\ cocoResult' = merge_coco_annotations(all_data)
    /\ UNCHANGED exceptCoco

InitCoco == GridIdle /\ JobIdle /\ ReadIdle /\ ToolsIdle

NextCoco == MergeCocoAnnotations

SpecCoco == InitCoco /\ [][NextCoco]_vars

(***************************************************************************)
(* Claims about the manifest job and the merge.                            *)
(***************************************************************************)
\* The physical tile a CSV row names
TileOf(r) == <<r.source_image, r.ulx, r.uly>>

\* The files of the bucket that hold manifest rows
BucketManifests ==
    { partials[i] : i \in DOMAIN partials }
    \cup (IF finalManifest = NoFile THEN {} ELSE {Rows(finalManifest)})

RowSet(rows) == { rows[k] : k \in 1..Len(rows) }

\* Two different downloaded partials hold a row for the same tile.
HasConflict(files) ==
    \E f1, f2 \in 1..Len(files) :
        /\ f1 < f2
        /\ \E k1 \in 1..Len(files[f1]), k2 \in 1..Len(files[f2]) :
              TileOf(files[f1][k1]) = TileOf(files[f2][k2])

\* C5: no two rows of the final manifest name the same (source_image, ulx, uly).
C5_FinalTilesUnique ==
    finalManifest # NoFile =>
        \A i, j \in 1..Len(Rows(finalManifest)) :
            i # j => TileOf(Rows(finalManifest)[i]) # TileOf(Rows(finalManifest)[j])

\* C6: a merge whose partials conflict on a tile halts: it neither writes the
\* local final manifest nor uploads it.
C6_ConflictHaltsMerge ==
    HasConflict(localFiles) => mergePc \notin {"merged", "complete"}

\* C7: no two rows of a manifest, partial or final, have the same chip_path.
C7_ChipPathsUnique ==
    \A rows \in BucketManifests :
        \A i, j \in 1..Len(rows) : i # j => rows[i].chip_path # rows[j].chip_path

\* C8: the merged row sequence is the same whatever the order in which the
\* downloaded partials are passed to merge_manifests.
C8_MergeOrderIndependent ==
    mergePc = "merged" =>
        \A order \in Permutations(1..Len(localFiles)) :
            merge_manifests([k \in 1..Len(localFiles) |-> localFiles[order[k]]])
                = Rows(localOutput)

\* r1 comes no later than r2 by (source_image as str, ulx as int, uly as int).
TileOrdered(r1, r2) ==
    \/ StrLess(r1.source_image, r2.source_image)
    \/ /\ r1.source_image = r2.source_image
       /\ \/ StrToInt(r1.ulx) < StrToInt(r2.ulx)
          \/ StrToInt(r1.ulx) = StrToInt(r2.ulx) /\ StrToInt(r1.uly) <= StrToInt(r2.uly)

\* C9: the rows merge_manifests writes, and the final manifest uploaded from
\* them, ascend by (source_image, ulx, uly), ulx and uly compared as integers.
C9_FinalSorted ==
    \A file \in {localOutput, finalManifest} \ {NoFile} :
        \A k \in 1..(Len(Rows(file)) - 1) : TileOrdered(Rows(file)[k], Rows(file)[k + 1])

\* C9 witness: a completed merge of two partials that were not in order when
\* concatenated, with rows of two images and a five-digit ulx.
C9_Witness ==
    /\ mergePc = "complete"
    /\ Len(localFiles) = 2
    /\ StrLess(localFiles[2][1].source_image, localFiles[1][1].source_image)
    /\ Rows(finalManifest)[1] = localFiles[2][1]
    /\ \E k \in 1..Len(Rows(finalManifest)) : Len(Rows(finalManifest)[k].ulx) = 5

\* C10: once every task of the execution has returned and a merge started
\* after that has completed, the final manifest holds exactly the rows those
\* tasks saved.
C10_FinalIsExecutionOutput ==
    (/\ taskCount > 0
     /\ tasksDone = 0..(taskCount - 1)
     /\ mergeFresh
     /\ mergePc = "complete")
    => RowSet(Rows(finalManifest)) = UNION { RowSet(partials[i]) : i \in uploaded }


\* Task task_index of the current execution has rows to contribute, and the
\* bucket holds no partial manifest for it.
PartialMissing(task_index) ==
    /\ task_index \notin DOMAIN partials
    /\ \E stream \in TokenStreams :
          TaskOutput[sourceBlobs][taskCount][task_index][stream].saved # <<>>

\* C11: a merge run while the partial manifest of one of the execution's
\* workers is missing aborts: it neither writes the local final manifest nor
\* uploads it.
C11_MissingPartialAbortsMerge ==
    (/\ mergeFresh
     /\ taskCount > 0
     /\ \E task_index \in 0..(taskCount - 1) : PartialMissing(task_index))
    => mergePc \notin {"merged", "complete"}

\* Every task of the current execution has returned.
AllTasksDone == taskCount > 0 /\ tasksDone = 0..(taskCount - 1)

\* The places <<task, position>> at which cog stands in the tasks' shards
Owners(cog) ==
    { place \in UNION { {i} \X (1..Len(taskSummary[i].my_cogs)) : i \in DOMAIN taskSummary } :
        taskSummary[place[1]].my_cogs[place[2]] = cog }

\* C12: when every task of an execution has computed its shard from the same
\* listing, every listed image stands in exactly one shard, once, and the
\* shards hold nothing else.
C12_ShardsPartition ==
    AllTasksDone =>
        LET listing == list_cogs(sourceBlobs)
        IN  /\ \A n \in 1..Len(listing) : Cardinality(Owners(listing[n])) = 1
            /\ \A i \in DOMAIN taskSummary :
                  \A k \in 1..Len(taskSummary[i].my_cogs) :
                      \E n \in 1..Len(listing) : listing[n] = taskSummary[i].my_cogs[k]

\* C12 witness: an execution of at least two tasks over at least three
\* images has finished, and no shard is empty.
C12_Witness ==
    /\ AllTasksDone
    /\ taskCount >= 2
    /\ Len(list_cogs(sourceBlobs)) >= 3
    /\ \A i \in DOMAIN taskSummary : taskSummary[i].my_cogs # <<>>

\* The bin a consumer reads off a row: the directory part of chip_path
BinOf(r) == SplitFirst(r.chip_path, "/")

\* The rows of all partial manifests in the bucket
PartialRows == UNION { RowSet(partials[i]) : i \in DOMAIN partials }

\* C13: rows that worker processes emitted for the same tile of the same image
\* carry the same bin label, whichever process, token stream, task count or
\* bucket content produced them.
C13_BinIsFunctionOfTile ==
    Cardinality({ <<TileOf(r), BinOf(r)>> : r \in PartialRows })
        = Cardinality({ TileOf(r) : r \in PartialRows })

\* C13 witness: two processes emitted a row for the same tile, with different
\* random tokens.
C13_Witness ==
    \E r1, r2 \in PartialRows : TileOf(r1) = TileOf(r2) /\ r1.chip_path # r2.chip_path

\* The row with the two token letters of its chip_path blanked
WithoutToken(r) ==
    LET at == (2 * Len(BinOf(r))) + 3
    IN  [r EXCEPT !.chip_path = [k \in 1..Len(@) |-> IF k \in {at, at + 1} THEN "?" ELSE @[k]]]

\* C14: a task of the current execution that runs again, with the same task
\* index, task count and listing, leaves the partial manifest it left before.
C14_RestartIdentical ==
    [][\A i \in uploaded \cap uploaded' : partials'[i] = partials[i]]_vars

\* C14 as amended: the partial manifest of the re-run has the same rows in the
\* same order, up to the two random token letters of each chip_path.
C14_RestartSameUpToToken ==
    [][\A i \in uploaded \cap uploaded' :
          /\ Len(partials'[i]) = Len(partials[i])
          /\ \A k \in 1..Len(partials[i]) :
                WithoutToken(partials'[i][k]) = WithoutToken(partials[i][k])]_vars

\* C14 witness: a task that uploaded a partial manifest has run again.
C14_Witness ==
    \E i \in retried \cap uploaded : i \in DOMAIN partials /\ Len(partials[i]) > 0

\* The metadata of cog cannot be read.
IsUnreadable(cog) == RasterSize[cog] = Unreadable

\* cog can be read and is large enough for the default grid.
IsTileable(cog) ==
    /\ ~IsUnreadable(cog)
    /\ RasterSize[cog][1] >= required_width(DefaultChipSize, DefaultGridX, DefaultMargin)
    /\ RasterSize[cog][2] >= required_height(DefaultChipSize, DefaultGridY, DefaultMargin)

\* How many rows of the manifest name the image of cog
RowsOfCog(rows, cog) ==
    Cardinality({ k \in 1..Len(rows) : rows[k].source_image = PathStem(cog) })

\* C15: a task that has returned left a partial manifest with all
\* grid_x * grid_y rows of every readable, large-enough image of its shard,
\* also of those that come after an unreadable image.
C15_FailureDoesNotStopShard ==
    \A i \in tasksDone :
        \A k \in 1..Len(taskSummary[i].my_cogs) :
            IsTileable(taskSummary[i].my_cogs[k]) =>
                /\ i \in DOMAIN partials
                /\ RowsOfCog(partials[i], taskSummary[i].my_cogs[k]) = DefaultGridX * DefaultGridY

\* C15 witness: a returned task whose shard has an unreadable image before a
\* readable, large-enough one, whose rows are in the task's partial manifest.
C15_Witness ==
    \E i \in tasksDone :
        \E k1, k2 \in 1..Len(taskSummary[i].my_cogs) :
            /\ k1 < k2
            /\ IsUnreadable(taskSummary[i].my_cogs[k1])
            /\ IsTileable(taskSummary[i].my_cogs[k2])
            /\ i \in DOMAIN partials
            /\ RowsOfCog(partials[i], taskSummary[i].my_cogs[k2]) > 0

\* What main() reports at its end: the shard size, success_count and the
\* number of chips; it keeps no other counter.
Report(i) ==
    <<Len(taskSummary[i].my_cogs), taskSummary[i].success_count, taskSummary[i].chips>>

FailedCount(i) ==
    Cardinality({ k \in 1..Len(taskSummary[i].my_cogs) : IsUnreadable(taskSummary[i].my_cogs[k]) })

SkippedCount(i) ==
    Cardinality({ k \in 1..Len(taskSummary[i].my_cogs) :
                    ~IsUnreadable(taskSummary[i].my_cogs[k]) /\ ~IsTileable(taskSummary[i].my_cogs[k]) })

\* C16: what a task has counted at its end tells processed, skipped and failed
\* images apart and the three counts sum to the shard size: success_count is
\* the number of processed images, and two tasks that report the same counts
\* had the same number of failed and the same number of skipped images.
C16_OutcomesCounted ==
    \A i, j \in DOMAIN taskSummary :
        /\ taskSummary[i].success_count + SkippedCount(i) + FailedCount(i)
              = Len(taskSummary[i].my_cogs)
        /\ Report(i) = Report(j) =>
              FailedCount(i) = FailedCount(j) /\ SkippedCount(i) = SkippedCount(j)

\* The letters a..y
LettersAToY == { LowerCase[k] : k \in 1..25 }

\* The lower-cased labels, as a set
LowerBinLabels == { Lower(generate_bin_labels[k]) : k \in 1..Len(generate_bin_labels) }

\* generate_bin_labels returns 625 pairwise distinct labels.
BinLabelsDistinct ==
    /\ Len(generate_bin_labels) = 625
    /\ Cardinality({ generate_bin_labels[k] : k \in 1..Len(generate_bin_labels) }) = 625
    /\ Cardinality(LowerBinLabels) = 625

\* hash_to_bin gives an index of the label list for every key.
HashInRange ==
    \A key \in DOMAIN MD5HexDigest :
        HexMod(MD5HexDigest[key], Len(generate_bin_labels)) \in 0..(Len(generate_bin_labels) - 1)

\* C17: generate_bin_labels returns 625 pairwise distinct labels, hash_to_bin
\* gives an index of that list for every key, and the bin label of every row
\* is the lower-cased form of one of the labels: two letters of a..y.
C17_BinLabelsFixedSet ==
    /\ BinLabelsDistinct
    /\ HashInRange
    /\ \A bin \in { BinOf(r) : r \in PartialRows } :
          /\ bin \in LowerBinLabels
          /\ Len(bin) = 2
          /\ bin[1] \in LettersAToY /\ bin[2] \in LettersAToY

\* C17 witness: the bucket holds the rows of two images, in more than forty
\* different bins.
C17_Witness ==
    /\ Cardinality({ r.source_image : r \in PartialRows }) = 2
    /\ Cardinality({ BinOf(r) : r \in PartialRows }) > 40

\* The bin labels of the rows of image, in manifest order (tile index order)
BinsOfImage(rows, image) ==
    LET of_image == SelectSeq(rows, LAMBDA r : r.source_image = image)
    IN  [k \in 1..Len(of_image) |-> BinOf(of_image[k])]

ImagesOf(rows) == { rows[k].source_image : k \in 1..Len(rows) }

\* C18: the manifests in the bucket, built by executions over different
\* contents of the source prefix and with different task counts, agree on
\* every image they have in common: the image's tiles carry, in tile index
\* order, the same bin labels in each of them.
C18_BinsStableUnderCorpusChange ==
    \A image \in UNION { ImagesOf(partials[i]) : i \in DOMAIN partials } :
        Cardinality({ BinsOfImage(partials[i], image) :
                        i \in { j \in DOMAIN partials : image \in ImagesOf(partials[j]) } }) = 1

\* C18 witness: two manifests in the bucket have an image in common and one
\* of them holds an image that is no longer under the source prefix.
C18_Witness ==
    /\ \E i, j \in DOMAIN partials :
          i # j /\ ImagesOf(partials[i]) \cap ImagesOf(partials[j]) # {}
    /\ \E i \in DOMAIN partials :
          \E image \in ImagesOf(partials[i]) :
              \A cog \in sourceBlobs : PathStem(cog) # image

\* The COG of an image name
CogOf(image) == CHOOSE cog \in Cogs : PathStem(cog) = image

\* The bin the job assigned to the tile of row r: the label at the hash of
\* "<image>_<idx>", idx the tile's place in the image's grid
AssignedBin(r) ==
    LET size == RasterSize[CogOf(r.source_image)]
        grid == job_compute_chip_grid(size[1], size[2], DefaultChipSize,
                                      DefaultGridX, DefaultGridY, DefaultMargin)
        idx == (CHOOSE k \in 1..Len(grid) : grid[k] = <<StrToInt(r.ulx), StrToInt(r.uly)>>) - 1
    IN  Lower(generate_bin_labels[hash_to_bin(r.source_image \o <<"_">> \o IntToStr(idx), 625) + 1])

\* chip_path is bin/bin-token-source_image.png for the row's assigned bin and
\* some token of two lower-case letters, and splits back to that bin.
WellFormedPath(r) ==
    LET bin == AssignedBin(r)
    IN  /\ SplitFirst(r.chip_path, "/") = bin
        /\ \E l1, l2 \in { LowerCase[k] : k \in 1..26 } :
              r.chip_path = bin \o <<"/">> \o bin \o <<"-", l1, l2, "-">>
                            \o r.source_image \o <<".", "p", "n", "g">>

\* The first count elements of rows, all of them when count is left out
FirstCount(rows, count) ==
    IF count.type = "none" \/ count.val >= Len(rows) THEN rows ELSE SubSeq(rows, 1, count.val)

\* C20: every row's chip_path has the form bin/bin-token-source_image.png and
\* splits back to its assigned bin, and read_manifest returns the rows
\* assigned to the bin asked for (all rows when none is), in manifest order,
\* cut to the first count when count is given.
C20_ReadManifestByBin ==
    localOutput # NoFile =>
        /\ \A k \in 1..Len(Rows(localOutput)) : WellFormedPath(Rows(localOutput)[k])
        /\ readArgs # NoneValue =>
              readChips = FirstCount(
                  SelectSeq(Rows(localOutput),
                            LAMBDA r : readArgs.bin_name.type = "none"
                                       \/ AssignedBin(r) = readArgs.bin_name.val),
                  readArgs.count)

(***************************************************************************)
(* Claims about compute_chip_grid (checked under SpecGrid).                *)
(***************************************************************************)
Returned == IF "local" \in called THEN {chips} ELSE {}

JobReturned == IF "job" \in called THEN {jobChips} ELSE {}

Feasible ==
    /\ gridArgs.width >= gridArgs.grid_x * gridArgs.chip_size + 2 * gridArgs.margin
    /\ gridArgs.height >= gridArgs.grid_y * gridArgs.chip_size + 2 * gridArgs.margin

IsDefaultConfig ==
    /\ gridArgs.chip_size = 1024 /\ gridArgs.grid_x = 6
    /\ gridArgs.grid_y = 5 /\ gridArgs.margin = 10

\* The column ranges or the row ranges of two chip_size x chip_size tiles do not meet.
TilesDisjoint(a, b, chip_size) ==
    \/ a[1] + chip_size <= b[1] \/ b[1] + chip_size <= a[1]
    \/ a[2] + chip_size <= b[2] \/ b[2] + chip_size <= a[2]

\* C1: any two distinct tiles of a list returned by compute_chip_grid (either
\* copy) are disjoint chip_size x chip_size rectangles.
C1_NonOverlap ==
    \A res \in Returned \cup JobReturned :
        \A i, j \in 1..Len(res) :
            i # j => TilesDisjoint(res[i], res[j], gridArgs.chip_size)

\* C1 witness: a returned grid of at least 2 x 2 real tiles packed without any
\* spare pixel along x (width is exactly the required width).
C1_Witness ==
    /\ called = {"local", "job"}
    /\ gridArgs.chip_size >= 1 /\ gridArgs.grid_x >= 2 /\ gridArgs.grid_y >= 2
    /\ gridArgs.width = gridArgs.grid_x * gridArgs.chip_size + 2 * gridArgs.margin
    /\ Len(chips) = gridArgs.grid_x * gridArgs.grid_y
    /\ Len(jobChips) = Len(chips)

\* C2: every returned tile keeps the margin on all four sides of the image.
C2_MarginRespect ==
    \A res \in Returned \cup JobReturned :
        \A i \in 1..Len(res) :
            /\ res[i][1] >= gridArgs.margin
            /\ res[i][2] >= gridArgs.margin
            /\ res[i][1] + gridArgs.chip_size <= gridArgs.width - gridArgs.margin
            /\ res[i][2] + gridArgs.chip_size <= gridArgs.height - gridArgs.margin

\* C2 witness: tiles were returned for a positive margin and an image with
\* spare pixels left over after the floor division.
C2_Witness ==
    /\ called = {"local", "job"}
    /\ gridArgs.margin >= 1 /\ gridArgs.chip_size >= 1 /\ gridArgs.grid_x = 3
    /\ (gridArgs.width - 2 * gridArgs.margin - 3 * gridArgs.chip_size) % 2 = 1
    /\ Len(chips) >= 3 /\ Len(jobChips) >= 3

\* C3: exactly grid_x*grid_y tiles at or above both thresholds (30 for the
\* defaults), the empty list below either threshold; the bounds re-check
\* drops no tile of a feasible grid.
C3_FeasibilityBoundary ==
    \A res \in Returned :
        /\ Feasible => Len(res) = gridArgs.grid_x * gridArgs.grid_y
        /\ ~Feasible => res = <<>>
        /\ (IsDefaultConfig /\ Feasible) => Len(res) = 30

\* C3 witness: the default configuration exactly at both thresholds returned 30 tiles.
C3_Witness ==
    /\ "local" \in called /\ IsDefaultConfig
    /\ gridArgs.width = 6164 /\ gridArgs.height = 5140
    /\ Len(chips) = 30

\* C4: tile i = row*grid_x + col sits at margin + col*(chip_size + spacing_x),
\* margin + row*(chip_size + spacing_y), with the floor-division spacing (0 for
\* a single column or row); for 10000 x 8000 with the defaults the first tile
\* is (10, 10) and the second has ulx = 1801.
C4_RowMajorPlacement ==
    \A res \in Returned :
        LET a == gridArgs
            sx == IF a.grid_x = 1 THEN 0
                  ELSE (a.width - 2 * a.margin - a.grid_x * a.chip_size) \div (a.grid_x - 1)
            sy == IF a.grid_y = 1 THEN 0
                  ELSE (a.height - 2 * a.margin - a.grid_y * a.chip_size) \div (a.grid_y - 1)
        IN  Feasible =>
              /\ Len(res) = a.grid_x * a.grid_y
              /\ \A row \in 0..(a.grid_y - 1) : \A col \in 0..(a.grid_x - 1) :
                    res[row * a.grid_x + col + 1] =
                        << a.margin + col * (a.chip_size + sx),
                           a.margin + row * (a.chip_size + sy) >>
              /\ (IsDefaultConfig /\ a.width = 10000 /\ a.height = 8000) =>
                    /\ res[1] = <<10, 10>>
                    /\ res[2][1] = 1801

\* C4 witness: the 10000 x 8000 image with the defaults has been tiled.
C4_Witness ==
    /\ "local" \in called /\ IsDefaultConfig
    /\ gridArgs.width = 10000 /\ gridArgs.height = 8000
    /\ Len(chips) = 30 /\ chips[2] = <<1801, 10>> /\ chips[7] = <<10, 1749>>

(***************************************************************************)
(* Claims about chip_extractor.py.                                         *)
(***************************************************************************)
GenerateCalled == coordCall # NoneValue

\* The condition C21 names
TooLargeForImage ==
    \/ coordCall.chip_width >= coordCall.image_width - 2 * coordCall.margin
    \/ coordCall.chip_height >= coordCall.image_height - 2 * coordCall.margin

\* C21: generate_random_chip_coords raises ValueError exactly when
\* chip_width >= image_width - 2*margin or chip_height >= image_height -
\* 2*margin, and then it returns no coordinates.
C21_ValueErrorIffTooLarge ==
    GenerateCalled =>
        /\ (coordResult.raised = "ValueError") <=> TooLargeForImage
        /\ TooLargeForImage => coordResult.returned = NoneValue

\* C21 witness: a chip that fits in the width but not in the height was
\* refused; it is one pixel past the largest chip accepted.
C21_Witness ==
    /\ GenerateCalled
    /\ coordResult.raised = "ValueError"
    /\ coordCall.chip_width < coordCall.image_width - 2 * coordCall.margin
    /\ coordCall.chip_height = coordCall.image_height - 2 * coordCall.margin
    /\ coordCall.margin > 0

\* C22: every ChipCoords that generate_random_chip_coords returns has the
\* width and height asked for and lies between the margins: ul_x >= margin,
\* ul_y >= margin, lr_x <= image_width - margin, lr_y <= image_height -
\* margin, whatever the random draws.
C22_ReturnedChipWithinMargins ==
    (GenerateCalled /\ coordResult.returned # NoneValue) =>
        LET c == coordResult.returned
        IN  /\ c.width = coordCall.chip_width
            /\ c.height = coordCall.chip_height
            /\ c.ul_x >= coordCall.margin
            /\ c.ul_y >= coordCall.margin
            /\ c.ul_x + c.width <= coordCall.image_width - coordCall.margin
            /\ c.ul_y + c.height <= coordCall.image_height - coordCall.margin

\* C22 witness: a chip was returned whose lower-right corner lies exactly on
\* the margin lines.
C22_Witness ==
    /\ GenerateCalled
    /\ coordResult.returned # NoneValue
    /\ coordCall.margin > 0
    /\ coordResult.returned.ul_x + coordResult.returned.width
         = coordCall.image_width - coordCall.margin
    /\ coordResult.returned.ul_y + coordResult.returned.height
         = coordCall.image_height - coordCall.margin

IsValidCalled == validCall # NoneValue

\* C23: is_valid(W, H) is true exactly when ul_x > 0, ul_y > 0,
\* ul_x + width < W and ul_y + height < H: a chip touching the left or top
\* edge, or whose lower-right coordinate reaches the image dimension, is
\* invalid, and a chip with lower-right at (W-1, H-1) is valid.
C23_IsValidStrictlyInside ==
    IsValidCalled =>
        LET c == validCall.coords
            W == validCall.image_width
            H == validCall.image_height
        IN  /\ validResult <=> (c.ul_x > 0 /\ c.ul_y > 0 /\ c.ul_x + c.width < W /\ c.ul_y + c.height < H)
            /\ (c.ul_x = 0 \/ c.ul_y = 0) => ~validResult
            /\ (c.ul_x + c.width >= W \/ c.ul_y + c.height >= H) => ~validResult
            /\ (c.ul_x > 0 /\ c.ul_y > 0 /\ c.ul_x + c.width = W - 1 /\ c.ul_y + c.height = H - 1)
                   => validResult

\* C23 witness: the chip with its lower-right corner at (W-1, H-1) and its
\* upper-left corner one pixel inside was found valid.
C23_Witness ==
    /\ IsValidCalled
    /\ validResult
    /\ validCall.coords.ul_x = 1 /\ validCall.coords.ul_y = 1
    /\ validCall.coords.ul_x + validCall.coords.width = validCall.image_width - 1
    /\ validCall.coords.ul_y + validCall.coords.height = validCall.image_height - 1

\* C29: for every margin >= 0 and every image and chip size that pass the
\* size check, the drawn coordinates satisfy is_valid: the assertion at the end
\* of generate_random_chip_coords never fails.
C29_AssertionNeverFails ==
    (GenerateCalled /\ ~TooLargeForImage) => coordResult.raised # "AssertionError"

(***************************************************************************)
(* Claims about cloudrun/chip_extraction_job.py.                           *)
(***************************************************************************)
\* Two chip_size x chip_size chips with these corners share a pixel
ChipsOverlap(a, b, chip_size) ==
    /\ a[1] < b[1] + chip_size /\ b[1] < a[1] + chip_size
    /\ a[2] < b[2] + chip_size /\ b[2] < a[2] + chip_size

\* The call returned exactly num_chips corners
ReturnsNumChips ==
    (cellCall # NoneValue /\ cellResult.raised = "none") =>
        Len(cellResult.returned) = cellCall.num_chips

\* C24: whenever generate_non_overlapping_grid_coords does not raise, it
\* returns exactly num_chips corners, and the chips at these corners are
\* pairwise non-overlapping, whatever the random offsets.
C24_GridChipsDisjoint ==
    (cellCall # NoneValue /\ cellResult.raised = "none") =>
        /\ Len(cellResult.returned) = cellCall.num_chips
        /\ \A i, j \in 1..Len(cellResult.returned) :
               i < j => ~ChipsOverlap(cellResult.returned[i], cellResult.returned[j],
                                      cellCall.chip_size)

(***************************************************************************)
(* Claims about cloudrun/convert_cog_job.py.                               *)
(***************************************************************************)
\* Every task of the conversion job has returned and no conversion failed
ConvJobOver ==
    /\ convTaskCount > 0
    /\ \A t \in ConvTaskIndexes : convTasks[t].pc = "done" /\ convTasks[t].failed = {}

\* The tasks that converted a file
Converters(f) == { t \in ConvTaskIndexes : f \in convTasks[t].converted }

\* C25: every source file without a COG at the start of the job is converted
\* by exactly one task, however the tasks' listings fall between the other
\* tasks' uploads: none is left out by all, none is converted twice.
C25_EachFileConvertedOnce ==
    ConvJobOver => \A f \in convAtStart : Cardinality(Converters(f)) = 1

(***************************************************************************)
(* Claims about batch_extract_chips.py.                                    *)
(***************************************************************************)
NumBatchCogs == Len(list_cogs_from_gcs(BatchBlobs))

\* C26: a run of process_cog_batch in a new process, after a run in which
\* every image produced a chip, skips every image as already existing and
\* leaves the output directory as it was.
C26_RerunIsNoOp ==
    \A k \in 2..Len(batchReports) :
        batchReports[k - 1].success_count = NumBatchCogs =>
            /\ batchReports[k].skip_count = NumBatchCogs
            /\ batchReports[k].success_count = 0
            /\ batchDirs[k] = batchDirs[k - 1]

(***************************************************************************)
(* Claims about convert_cogs_threaded.py.                                  *)
(***************************************************************************)
AllFuturesCompleted ==
    /\ num_workers > 0
    /\ \A f \in DOMAIN futures : futures[f].pc = "done"

FilesWith(outcome) == { f \in DOMAIN futures : futures[f].outcome = outcome }

BinKeys == { PathStem(cog) \o <<"_">> \o IntToStr(idx) : cog \in {CogTiled, CogWide}, idx \in 0..29 }

\* The two generate_bin_labels return the same list
BinLabelCopiesAgree == local_generate_bin_labels = generate_bin_labels

\* The two hash_to_bin return the same index
HashCopiesAgree ==
    \A value \in BinKeys, num_bins \in {1, 10, 100, 625} :
        local_hash_to_bin(value, num_bins) = hash_to_bin(value, num_bins)

\* What an entry says about its tile: image, corner, size and bin
LocalTile(entry) ==
    <<entry.source_image, entry.ulx, entry.uly, entry.width, entry.height, entry.bin>>

JobTile(entry) ==
    <<entry.source_image, entry.ulx, entry.uly, entry.width, entry.height,
      SplitFirst(entry.chip_path, "/")>>

\* The local generator and the job give every tile of every image the same
\* corner and the same bin
TileCopiesAgree ==
    \A cog \in Cogs :
        LET local == process_single_image(cog, PathStem(cog), local_generate_bin_labels, <<"a", "a">>)
            job == process_cog(cog, generate_bin_labels, <<"a", "a">>, 0)
        IN  /\ Len(local) = Len(job)
            /\ \A k \in 1..Len(local) : LocalTile(local[k]) = JobTile(job[k])

\* C28: the compute_chip_grid of generate_chip_manifest.py and the one of
\* cloudrun/chip_manifest_job.py return the same list for the same
\* arguments, the two generate_bin_labels and the two hash_to_bin agree, and
\* so both generators give each tile of an image the same corner and bin.
C28_CopiesAgree ==
    /\ called = {"local", "job"} => chips = jobChips
    /\ BinLabelCopiesAgree
    /\ HashCopiesAgree
    /\ TileCopiesAgree

\* C28 witness: both copies have returned the 30 tiles of a 13000 x 8000
\* image under the defaults, and both generators put its last tile in the
\* same bin.
C28_Witness ==
    /\ called = {"local", "job"}
    /\ IsDefaultConfig
    /\ gridArgs.width = 13000 /\ gridArgs.height = 8000
    /\ Len(chips) = 30 /\ Len(jobChips) = 30
    /\ chips[30] = jobChips[30]
    /\ process_single_image(CogWide, PathStem(CogWide), local_generate_bin_labels, <<"a", "a">>)[30].bin
         = SplitFirst(process_cog(CogWide, generate_bin_labels, <<"a", "a">>, 0)[30].chip_path, "/")

(***************************************************************************)
(* Claims about merge_coco_annotations.py.                                 *)
(***************************************************************************)
CocoSaved == annotation_files # <<>> /\ cocoResult.raised = "none"

\* No two places of the list hold the same id
IdsDistinct(list) == \A i, j \in 1..Len(list) : i # j => list[i].id # list[j].id

\* How many images (annotations) the files before file k hold
RECURSIVE ImagesBefore(_)
ImagesBefore(k) ==
    IF k <= 1 THEN 0 ELSE ImagesBefore(k - 1) + Len(annotation_files[k - 1].images)

RECURSIVE AnnotationsBefore(_)
AnnotationsBefore(k) ==
    IF k <= 1 THEN 0 ELSE AnnotationsBefore(k - 1) + Len(annotation_files[k - 1].annotations)

\* Annotation j of file k points, in the output, at the image it pointed at
\* in file k
RefFollowsImage(k, j) ==
    LET data == annotation_files[k]
        saved == cocoResult.returned
        i == CHOOSE n \in 1..Len(data.images) : data.images[n].id = data.annotations[j].image_id
        image == saved.images[ImagesBefore(k) + i]
    IN  /\ image.file_name = data.images[i].file_name
        /\ saved.annotations[AnnotationsBefore(k) + j].image_id = image.id

\* C30: in the output of merge_coco_annotations over files with non-negative
\* ids that are unique within each file, all image ids are pairwise distinct,
\* all annotation ids are pairwise distinct, and every annotation's image_id
\* is the new id of the image it referred to in its own file.
C30_MergedIdsUnique ==
    CocoSaved =>
        /\ IdsDistinct(cocoResult.returned.images)
        /\ IdsDistinct(cocoResult.returned.annotations)
        /\ \A k \in 1..Len(annotation_files) :
               \A j \in 1..Len(annotation_files[k].annotations) : RefFollowsImage(k, j)

\* C30 witness: two files that both use the ids 0 and 2 for their images and
\* for their annotations were merged, and the second file's annotations were
\* moved to new ids and to the second file's images.
C30_Witness ==
    /\ CocoSaved
    /\ Len(annotation_files) = 2
    /\ \A k \in 1..2 : /\ IdsOf(annotation_files[k].images) = {0, 2}
                       /\ IdsOf(annotation_files[k].annotations) = {0, 2}
    /\ Len(cocoResult.returned.images) = 4
    /\ Len(cocoResult.returned.annotations) = 4
    /\ cocoResult.returned.annotations[3].id >= 3
    /\ cocoResult.returned.annotations[3].image_id >= 3

====
